---- MODULE Spec2Model ----
(***************************************************************************)
(* Model of the document extraction pipeline of the mcp-server crate       *)
(* (src/mcp-server/src/rust_scraper.rs): text normalizer, quality scorer,  *)
(* preprocessor, candidate extractors, selector and metadata extractors.   *)
(*                                                                         *)
(* Text is modelled as TLA+ strings (TLC treats a string as the sequence   *)
(* of its characters: Len, SubSeq and \o apply).  str::len is a byte       *)
(* count: str_len gives it, with two bytes for the non-ASCII letter of the *)
(* model and one for every other character.                                *)
(***************************************************************************)
EXTENDS Integers, Sequences, FiniteSets, TLC

VARIABLES
    text_in,     \* normalizer: the string handed to the normalizer
    text_out,    \* normalizer: result of the latest post_clean_text call
    text_prev,   \* normalizer: result of the call before the latest one
    text_runs,   \* normalizer: number of post_clean_text calls made so far
    text_clean,  \* normalizer: what clean_text returned in the latest call
    score_args,  \* scorer: [wc, published, code_blocks, headings]
    score,       \* scorer: result of calculate_extraction_score, or NoScore
    fetch,       \* scrape_url: the request's URL and the outcome of the fetch
    html,        \* scrape_url: body of the fetched page (token sequence)
    readability, \* scrape_url: outcome of the external readability crate
    whatlang,    \* scrape_url: outcome of the external language detector
    response,    \* scrape_url: Ok(ScrapeResponse), Err, or NoResponse
    shown,       \* call_tool: what the display layer made of the response
    sel_args,    \* selector: the two word counts [rt, ht]
    sel_choice,  \* selector: the candidate chosen for them, or None
    tasks,       \* chat_handler: the spawned scrape tasks and their locals
    scraped_content, \* chat_handler: the records collected from the tasks
    noise_in,    \* noise predicate: the id or class token tested
    noise_out,   \* noise predicate: <<is_noise_identifier's result>>, or <<>>
    search,      \* search_web_with_params: the call's position and locals
    search_cache, \* search_web_with_params: state.search_cache
    search_history, \* search_web_with_params: the searches logged to memory
    pre_out,     \* extract_clean_content: <<pre>>, the preprocessed page, or <<>>
    heuristic_out \* extract_clean_content: <<heuristic_text>>, or <<>>

textVars   == <<text_in, text_out, text_prev, text_runs, text_clean>>
scoreVars  == <<score_args, score>>
scrapeVars == <<fetch, html, readability, whatlang, response>>
selVars    == <<sel_args, sel_choice>>
taskVars   == <<tasks, scraped_content>>
noiseVars  == <<noise_in, noise_out>>
searchVars == <<search, search_cache, search_history>>
extractVars == <<pre_out, heuristic_out>>

vars == <<textVars, scoreVars, scrapeVars, shown, selVars, taskVars,
         noiseVars, searchVars, extractVars>>

NoScore == -1
NoSearch == [pc |-> "idle"]
NoResponse == [none |-> TRUE]
None == "<None>"

(***************************************************************************)
(* Characters and strings                                                  *)
(***************************************************************************)
Ch(s, i) == SubSeq(s, i, i)

\* str::len(): the length of the UTF-8 encoding
TwoByteChars == {"é"}
str_len(s) == Len(s) + Cardinality({i \in 1..Len(s) : Ch(s, i) \in TwoByteChars})

\* char::is_whitespace / regex \s, restricted to the characters of the model
IsWhitespace(c) == c \in {" ", "\n", "\t"}

UpperChars == "ABCDEFGHIJKLMNOPQRSTUVWXYZ"
LowerChars == "abcdefghijklmnopqrstuvwxyz"
DigitChars == "0123456789"

to_ascii_lowercase_char(c) ==
    IF \E i \in 1..26 : Ch(UpperChars, i) = c
    THEN Ch(LowerChars, CHOOSE i \in 1..26 : Ch(UpperChars, i) = c)
    ELSE c

\* concatenation of pieces[lo..hi] (halving keeps the evaluation shallow)
RECURSIVE Flatten(_, _, _)
Flatten(pieces, lo, hi) ==
    IF lo > hi THEN ""
    ELSE IF lo = hi THEN pieces[lo]
    ELSE LET mid == (lo + hi) \div 2
         IN  Flatten(pieces, lo, mid) \o Flatten(pieces, mid + 1, hi)

\* the string built from one piece per character of s
Pieces(pieces) == Flatten(pieces, 1, Len(pieces))

to_ascii_lowercase(s) ==
    Pieces([i \in 1..Len(s) |-> to_ascii_lowercase_char(Ch(s, i))])

\* regex \w
IsWordChar(c) ==
    \/ \E i \in 1..26 : Ch(UpperChars, i) = c \/ Ch(LowerChars, i) = c
    \/ \E i \in 1..10 : Ch(DigitChars, i) = c
    \/ c = "_"

\* str::contains / unanchored regex literal
Contains(s, p) ==
    \E i \in 1..(Len(s) - Len(p) + 1) : SubSeq(s, i, i + Len(p) - 1) = p

starts_with(s, p) == Len(s) >= Len(p) /\ SubSeq(s, 1, Len(p)) = p

\* str::trim
trim(s) ==
    LET ix == {i \in 1..Len(s) : ~IsWhitespace(Ch(s, i))}
    IN  IF ix = {} THEN ""
        ELSE SubSeq(s, CHOOSE i \in ix : \A j \in ix : i <= j,
                       CHOOSE i \in ix : \A j \in ix : i >= j)

\* str::split('\n'): the pieces between consecutive newlines
split_lines(s) ==
    LET nl     == {i \in 1..Len(s) : Ch(s, i) = "\n"}
        Nth(k) == IF k = 0 THEN 0
                  ELSE IF k > Cardinality(nl) THEN Len(s) + 1
                  ELSE CHOOSE i \in nl : Cardinality({j \in nl : j < i}) = k - 1
    IN  [k \in 1..(Cardinality(nl) + 1) |-> SubSeq(s, Nth(k - 1) + 1, Nth(k) - 1)]

\* [String]::join
RECURSIVE join(_, _)
join(parts, sep) ==
    IF parts = <<>> THEN ""
    ELSE IF Len(parts) = 1 THEN parts[1]
    ELSE parts[1] \o sep \o join(Tail(parts), sep)

\* count_words: text.split_whitespace().count()
count_words(text) ==
    Cardinality({i \in 1..Len(text) :
        /\ ~IsWhitespace(Ch(text, i))
        /\ (i = 1 \/ IsWhitespace(Ch(text, i - 1)))})

\* s repeated n times
RECURSIVE Repeat(_, _)
Repeat(s, n) ==
    IF n = 0 THEN ""
    ELSE IF n = 1 THEN s
    ELSE Repeat(s, n \div 2) \o Repeat(s, n - n \div 2)

(***************************************************************************)
(* Text normalizer: clean_text (pass 1) and post_clean_text (pass 2)       *)
(***************************************************************************)
\* last and first index of the whitespace run that contains position i
RECURSIVE WsRunEnd(_, _)
WsRunEnd(s, i) ==
    IF i < Len(s) /\ IsWhitespace(Ch(s, i + 1)) THEN WsRunEnd(s, i + 1) ELSE i

RECURSIVE WsRunStart(_, _)
WsRunStart(s, i) ==
    IF i > 1 /\ IsWhitespace(Ch(s, i - 1)) THEN WsRunStart(s, i - 1) ELSE i

\* variant: the pattern \s\s instead of \s+ (whitespace collapsed by pairs)
ReplaceWhitespace_pairs(s) ==
    Pieces([i \in 1..Len(s) |->
        IF ~IsWhitespace(Ch(s, i)) THEN Ch(s, i)
        ELSE IF (i - WsRunStart(s, i)) % 2 = 1 THEN ""
        ELSE IF i < WsRunEnd(s, i) THEN " "
        ELSE Ch(s, i)])

\* variant: the pattern [ \t]+ instead of \s+ (newlines are left alone)
ReplaceWhitespace_inline(s) ==
    Pieces([i \in 1..Len(s) |->
        IF Ch(s, i) \notin {" ", "\t"} THEN Ch(s, i)
        ELSE IF i = 1 \/ Ch(s, i - 1) \notin {" ", "\t"} THEN " "
        ELSE ""])

\* re_whitespace.replace_all(text, " ") with re_whitespace = \s+ :
\* the first character of a whitespace run becomes " ", the others vanish
ReplaceWhitespace(s) ==
    Pieces([i \in 1..Len(s) |->
        IF ~IsWhitespace(Ch(s, i)) THEN Ch(s, i)
        ELSE IF i = 1 \/ ~IsWhitespace(Ch(s, i - 1)) THEN " "
        ELSE ""])

\* re_newlines.replace_all(text, "\n\n") with re_newlines = \n\s*\n :
\* \s* is greedy, so in a whitespace run with two or more newlines the match
\* runs from the first newline to the last one
ReplaceNewlines(s) ==
    Pieces([i \in 1..Len(s) |->
        IF ~IsWhitespace(Ch(s, i)) THEN Ch(s, i)
        ELSE LET nl == {k \in WsRunStart(s, i)..WsRunEnd(s, i) : Ch(s, k) = "\n"}
                 p  == CHOOSE k \in nl : \A j \in nl : k <= j
                 q  == CHOOSE k \in nl : \A j \in nl : k >= j
             IN  IF Cardinality(nl) < 2 \/ i < p \/ i > q THEN Ch(s, i)
                 ELSE IF i = p THEN "\n\n"
                 ELSE ""])

clean_text(text) ==
    trim(ReplaceNewlines(ReplaceWhitespace(text)))

\* the unanchored, case-insensitive alternatives of the garbage regex
GarbageLiterals ==
    {"subscribe", "sign up", "cookie", "accept all", "advert", "sponsor",
     "newsletter", "related articles", "read more", "continue reading",
     "terms of service", "privacy policy"}

\* (?i)\bshare\b
MatchesShareWord(l) ==
    \E i \in 1..(Len(l) - 4) :
        /\ SubSeq(l, i, i + 4) = "share"
        /\ (i = 1 \/ ~IsWordChar(Ch(l, i - 1)))
        /\ (i + 5 > Len(l) \/ ~IsWordChar(Ch(l, i + 5)))

\* variant: the patterns must match the whole line
is_garbage_anchored(line_trim) ==
    LET l == to_ascii_lowercase(line_trim)
    IN  l \in GarbageLiterals \cup {"share", "comment", "comments"}

\* re_garbage.is_match(line_trim)
is_garbage(line_trim) ==
    LET l == to_ascii_lowercase(line_trim)
    IN  \/ \E p \in GarbageLiterals : Contains(l, p)
        \/ MatchesShareWord(l)
        \/ l \in {"comment", "comments"}

\* the loop of post_clean_text over out.split('\n')
RECURSIVE KeepLines(_)
KeepLines(lines) ==
    IF lines = <<>> THEN <<>>
    ELSE LET line_trim == trim(Head(lines))
         IN  IF \/ line_trim = ""
                \/ str_len(line_trim) < 3
                \/ is_garbage(line_trim)
             THEN KeepLines(Tail(lines))
             ELSE <<line_trim>> \o KeepLines(Tail(lines))

\* Vec::dedup: drop every element equal to its predecessor
RECURSIVE dedup(_)
dedup(v) ==
    IF Len(v) <= 1 THEN v
    ELSE LET r == dedup(Tail(v))
         IN  IF v[1] = r[1] THEN r ELSE <<v[1]>> \o r

\* last and first index of the newline run that contains position i
RECURSIVE NlRunEnd(_, _)
NlRunEnd(s, i) ==
    IF i < Len(s) /\ Ch(s, i + 1) = "\n" THEN NlRunEnd(s, i + 1) ELSE i

RECURSIVE NlRunStart(_, _)
NlRunStart(s, i) ==
    IF i > 1 /\ Ch(s, i - 1) = "\n" THEN NlRunStart(s, i - 1) ELSE i

\* re_multi_nl.replace_all(result, "\n\n") with re_multi_nl = \n{3,}
ReplaceMultiNl(s) ==
    Pieces([i \in 1..Len(s) |->
        IF Ch(s, i) # "\n" \/ NlRunEnd(s, i) - NlRunStart(s, i) + 1 < 3 THEN Ch(s, i)
        ELSE IF i = NlRunStart(s, i) THEN "\n\n"
        ELSE ""])

post_clean_text(text) ==
    LET out    == clean_text(text)
        kept   == dedup(KeepLines(split_lines(out)))
        result == join(kept, "\n")
    IN  ReplaceMultiNl(result)

(***************************************************************************)
(* Quality scorer.  Scores are integers in units of 1/ScoreScale, so that  *)
(* 1.0 is ScoreScale; the only inexact term, 0.15 * (2000 / word_count)    *)
(* for word_count > 2000, is rounded down to the unit.                     *)
(***************************************************************************)
ScoreScale == 10000

Min(a, b) == IF a <= b THEN a ELSE b
Max(a, b) == IF a >= b THEN a ELSE b

ContentScore(word_count) ==
    IF word_count > 50 THEN 3000 ELSE IF word_count > 20 THEN 1500 ELSE 0

HeadingScore(n_headings) ==
    IF n_headings > 2 THEN 1500 ELSE IF n_headings > 0 THEN 750 ELSE 0

LengthScore(word_count) ==
    IF word_count >= 500 /\ word_count <= 2000 THEN 1500
    ELSE IF word_count > 2000
         THEN Min(1500, (1500 * 2000) \div word_count)
    ELSE IF word_count > 100 THEN (1500 * word_count) \div 500
    ELSE 0

\* variant: both heading bonuses added (missing else) and no final min(1.0)
calculate_extraction_score_unclamped(word_count, published_at, code_blocks, headings) ==
    ContentScore(word_count)
    + (IF published_at # None THEN 2000 ELSE 0)
    + (IF code_blocks # <<>> THEN 2000 ELSE 0)
    + (IF Len(headings) > 2 THEN 1500 ELSE 0) + (IF headings # <<>> THEN 750 ELSE 0)
    + LengthScore(word_count)

\* variant: the date bonus needs a non-empty date and the code bonus a
\* block whose language is known
calculate_extraction_score_strict(word_count, published_at, code_blocks, headings) ==
    LET sum == ContentScore(word_count)
               + (IF published_at \notin {None, ""} THEN 2000 ELSE 0)
               + (IF \E i \in 1..Len(code_blocks) : code_blocks[i].language # None
                  THEN 2000 ELSE 0)
               + HeadingScore(Len(headings))
               + LengthScore(word_count)
    IN  Min(ScoreScale, sum)

\* published_at is None or Some(date); code_blocks and headings are the
\* extracted lists
calculate_extraction_score(word_count, published_at, code_blocks, headings) ==
    LET sum == ContentScore(word_count)
               + (IF published_at # None THEN 2000 ELSE 0)
               + (IF code_blocks # <<>> THEN 2000 ELSE 0)
               + HeadingScore(Len(headings))
               + LengthScore(word_count)
    IN  Min(ScoreScale, sum)

(***************************************************************************)
(* HTML.  A page is a sequence of tokens (start tag with attributes, end   *)
(* tag, character data); the regex preprocessor works on the token         *)
(* sequence, the parsers (scraper::Html, select::Document, both html5ever) *)
(* build a node array in document order with parent pointers.              *)
(***************************************************************************)
NoAttrs == [a \in {} |-> ""]

Attr(attrs, name) == IF name \in DOMAIN attrs THEN attrs[name] ELSE None

Open(tag, attrs) == [k |-> "open", tag |-> tag, attrs |-> attrs, text |-> ""]
Close(tag) == [k |-> "close", tag |-> tag, attrs |-> NoAttrs, text |-> ""]
Text(s) == [k |-> "text", tag |-> "", attrs |-> NoAttrs, text |-> s]

\* <tag attrs>inner</tag>
Element(tag, attrs, inner) == <<Open(tag, attrs)>> \o inner \o <<Close(tag)>>

\* first pattern of preprocess_html
BlockTags == {"script", "style", "noscript", "svg", "canvas", "iframe"}

\* second pattern of preprocess_html
AdBlockTags == {"div", "section", "aside", "article"}

AdKeywords ==
    {"ads", "advert", "sponsor", "promo", "related", "cookie", "banner",
     "modal", "subscribe", "newsletter", "share", "social", "sidebar",
     "comments", "breadcrumb", "pagination"}

\* [^>]*?(?:id|class)= : the pattern is not anchored at the start of an
\* attribute name, so it matches any name that ends in id or class
EndsInIdOrClass(name) ==
    LET n == to_ascii_lowercase(name)
    IN  \/ Len(n) >= 2 /\ SubSeq(n, Len(n) - 1, Len(n)) = "id"
        \/ Len(n) >= 5 /\ SubSeq(n, Len(n) - 4, Len(n)) = "class"

\* the start tag part of a pattern: pass 1 any block tag, pass 2 an ad block
\* tag with an attribute, its name ending in id or class, whose value
\* contains a keyword ((?i): case-insensitive)
OpensBlock(tok, pass) ==
    /\ tok.k = "open"
    /\ IF pass = 1 THEN tok.tag \in BlockTags
       ELSE /\ tok.tag \in AdBlockTags
            /\ \E a \in DOMAIN tok.attrs :
                   /\ EndsInIdOrClass(a)
                   /\ \E kw \in AdKeywords :
                          Contains(to_ascii_lowercase(tok.attrs[a]), kw)

\* .*?</(?:tags)> : the first end tag of the pattern's tag set after i, or 0
FirstClose(toks, i, pass) ==
    LET tags == IF pass = 1 THEN BlockTags ELSE AdBlockTags
        c    == {j \in (i + 1)..Len(toks) :
                     toks[j].k = "close" /\ toks[j].tag \in tags}
    IN  IF c = {} THEN 0 ELSE CHOOSE j \in c : \A m \in c : j <= m

\* Regex::replace_all(s, " ") for one of the two patterns
RECURSIVE ReplaceBlocks(_, _, _)
ReplaceBlocks(toks, i, pass) ==
    IF i > Len(toks) THEN <<>>
    ELSE IF OpensBlock(toks[i], pass) /\ FirstClose(toks, i, pass) # 0
         THEN <<Text(" ")>> \o ReplaceBlocks(toks, FirstClose(toks, i, pass) + 1, pass)
         ELSE <<toks[i]>> \o ReplaceBlocks(toks, i + 1, pass)

preprocess_html(toks) == ReplaceBlocks(ReplaceBlocks(toks, 1, 1), 1, 2)

\* html5ever tree construction for the tags of the model: html, head and
\* body always exist; the attributes of an <html> start tag go to the root
\* element (an attribute it already has is kept); title, meta and link go
\* to head as long as nothing but whitespace has been put in body;
\* character data is appended to a preceding text sibling; an end tag
\* closes the nearest open element of that name and is ignored when there
\* is none
RootNodes ==
    << [kind |-> "elem", tag |-> "html", attrs |-> NoAttrs, text |-> "", parent |-> 0],
       [kind |-> "elem", tag |-> "head", attrs |-> NoAttrs, text |-> "", parent |-> 1],
       [kind |-> "elem", tag |-> "body", attrs |-> NoAttrs, text |-> "", parent |-> 1] >>

HtmlIx == 1
HeadIx == 2
BodyIx == 3

VoidTags == {"img", "meta", "link", "br", "hr", "input"}

HeadTags == {"title", "meta", "link"}

MergeAttrs(old, new) ==
    [a \in (DOMAIN old) \cup (DOMAIN new) |->
        IF a \in DOMAIN old THEN old[a] ELSE new[a]]

BodyIsEmpty(nodes) ==
    \A n \in 1..Len(nodes) :
        nodes[n].parent = BodyIx =>
            nodes[n].kind = "text" /\ \A j \in 1..Len(nodes[n].text) :
                                          IsWhitespace(Ch(nodes[n].text, j))

RECURSIVE ParseFrom(_, _, _, _)
ParseFrom(toks, i, nodes, stack) ==
    IF i > Len(toks) THEN nodes
    ELSE
      LET t    == toks[i]
          top  == stack[Len(stack)]
          last == nodes[Len(nodes)]
      IN  IF t.k = "text" THEN
             IF last.kind = "text" /\ last.parent = top
             THEN ParseFrom(toks, i + 1,
                      [nodes EXCEPT ![Len(nodes)].text = @ \o t.text], stack)
             ELSE ParseFrom(toks, i + 1,
                      Append(nodes, [kind |-> "text", tag |-> "", attrs |-> NoAttrs,
                                     text |-> t.text, parent |-> top]), stack)
          ELSE IF t.k = "open" /\ t.tag = "html" THEN
             ParseFrom(toks, i + 1,
                 [nodes EXCEPT ![HtmlIx].attrs = MergeAttrs(@, t.attrs)], stack)
          ELSE IF t.k = "open" THEN
             LET in_head == /\ t.tag \in HeadTags /\ stack = <<BodyIx>>
                            /\ BodyIsEmpty(nodes)
                 n == [kind |-> "elem", tag |-> t.tag, attrs |-> t.attrs,
                       text |-> "", parent |-> IF in_head THEN HeadIx ELSE top]
             IN  ParseFrom(toks, i + 1, Append(nodes, n),
                      IF t.tag \in VoidTags THEN stack
                      ELSE Append(stack, Len(nodes) + 1))
          ELSE
             LET open == {d \in 2..Len(stack) : nodes[stack[d]].tag = t.tag}
             IN  IF open = {} THEN ParseFrom(toks, i + 1, nodes, stack)
                 ELSE ParseFrom(toks, i + 1, nodes,
                          SubSeq(stack, 1,
                              (CHOOSE d \in open : \A e \in open : d >= e) - 1))

parse_document(toks) == ParseFrom(toks, 1, RootNodes, <<BodyIx>>)

\* n is a proper descendant of root
RECURSIVE IsUnder(_, _, _)
IsUnder(nodes, n, root) ==
    /\ n # 0
    /\ nodes[n].parent # 0
    /\ (nodes[n].parent = root \/ IsUnder(nodes, nodes[n].parent, root))

Elements(nodes) == {n \in 1..Len(nodes) : nodes[n].kind = "elem"}

\* the indices of a set in increasing order
RECURSIVE SortedFrom(_, _, _)
SortedFrom(S, i, max) ==
    IF i > max THEN <<>>
    ELSE (IF i \in S THEN <<i>> ELSE <<>>) \o SortedFrom(S, i + 1, max)

InDocOrder(nodes, S) == SortedFrom(S, 1, Len(nodes))

\* text nodes below root, in document order
TextNodesUnder(nodes, root) ==
    InDocOrder(nodes, {n \in 1..Len(nodes) :
                           nodes[n].kind = "text" /\ IsUnder(nodes, n, root)})

RECURSIVE TextsOf(_, _)
TextsOf(nodes, ixs) ==
    IF ixs = <<>> THEN <<>>
    ELSE <<nodes[Head(ixs)].text>> \o TextsOf(nodes, Tail(ixs))

\* ElementRef::text().collect::<String>()
element_text(nodes, el) == join(TextsOf(nodes, TextNodesUnder(nodes, el)), "")

\* html2text::from_read(.., 80) with its plain decorator, for the markup of
\* the model: the text of each block on lines of its own, "#" markers before
\* a heading, "[text][n]" for the n-th link and the link targets "[n]: href"
\* as the last lines (the quote marks it puts around inline code, which add
\* no whitespace, are left out); nothing of <head> is rendered
LinksUnder(nodes, root) ==
    InDocOrder(nodes, {n \in 1..Len(nodes) :
        /\ nodes[n].kind = "elem" /\ nodes[n].tag = "a"
        /\ Attr(nodes[n].attrs, "href") # None
        /\ IsUnder(nodes, n, root)})

IndexIn(seq, x) == CHOOSE i \in 1..Len(seq) : seq[i] = x

ToDigits(n) == IF n < 10 THEN Ch(DigitChars, n + 1)
               ELSE Ch(DigitChars, (n \div 10) + 1) \o Ch(DigitChars, (n % 10) + 1)

RenderedText(nodes, n, root) ==
    LET p    == nodes[nodes[n].parent]
        hs   == {k \in 1..6 : p.tag = "h" \o ToDigits(k)}
        link == nodes[n].parent \in {LinksUnder(nodes, root)[i] :
                                        i \in 1..Len(LinksUnder(nodes, root))}
    IN  IF hs # {} THEN Repeat("#", CHOOSE k \in hs : TRUE) \o " " \o nodes[n].text
        ELSE IF link
             THEN "[" \o nodes[n].text \o "]["
                  \o ToDigits(IndexIn(LinksUnder(nodes, root), nodes[n].parent)) \o "]"
        ELSE nodes[n].text

html2text(nodes, root) ==
    LET under == TextNodesUnder(nodes, root)
        texts == SelectSeq(under, LAMBDA n : ~IsUnder(nodes, n, HeadIx))
        links == LinksUnder(nodes, root)
    IN  join([i \in 1..Len(texts) |-> RenderedText(nodes, texts[i], root)]
             \o [i \in 1..Len(links) |->
                    "[" \o ToDigits(i) \o "]: " \o Attr(nodes[links[i]].attrs, "href")],
             "\n")

\* str::split_whitespace as a sequence, from position i
RECURSIVE SplitWsFrom(_, _)
SplitWsFrom(s, i) ==
    IF i > Len(s) THEN <<>>
    ELSE IF IsWhitespace(Ch(s, i)) THEN SplitWsFrom(s, i + 1)
    ELSE LET stop == {j \in i..Len(s) : IsWhitespace(Ch(s, j))}
             e    == IF stop = {} THEN Len(s)
                     ELSE (CHOOSE j \in stop : \A m \in stop : j <= m) - 1
         IN  <<SubSeq(s, i, e)>> \o SplitWsFrom(s, e + 1)

split_whitespace(s) == SplitWsFrom(s, 1)

\* Element::classes()
classes(attrs) ==
    IF Attr(attrs, "class") = None THEN {}
    ELSE LET c == split_whitespace(Attr(attrs, "class"))
         IN  {c[i] : i \in 1..Len(c)}

(***************************************************************************)
(* Noise predicate and noise-filtered recursive text walk                  *)
(***************************************************************************)
NoiseNeedles ==
    {"ads", "advert", "adsense", "adunit", "ad-slot", "ad_container", "adbox",
     "sponsor", "promo", "cookie", "consent", "banner", "modal",
     "subscribe", "newsletter", "share", "social", "sidebar", "comments",
     "related", "breadcrumb", "pagination", "nav", "footer", "header",
     "hero", "toolbar"}

\* variant: the plain "ad" among the needles
is_noise_identifier_plainad(ident) ==
    LET id == to_ascii_lowercase(ident)
    IN  \/ \E n \in NoiseNeedles \cup {"ad"} : Contains(id, n)
        \/ \E m \in {"-ad", "ad-", "_ad", "ad_"} : Contains(id, m)

is_noise_identifier(ident) ==
    LET id == to_ascii_lowercase(ident)
    IN  \/ \E n \in NoiseNeedles : Contains(id, n)
        \/ \E m \in {"-ad", "ad-", "_ad", "ad_"} : Contains(id, m)

SkippedTags ==
    {"script", "style", "noscript", "svg", "canvas", "iframe", "form",
     "header", "footer", "nav", "aside"}

\* variant: only the tag and the id are tested, the class tokens are not
IsSkippedChild_noclass(node) ==
    \/ node.tag \in SkippedTags
    \/ Attr(node.attrs, "id") # None /\ is_noise_identifier(Attr(node.attrs, "id"))

\* the test extract_text_recursive makes on a child element
IsSkippedChild(node) ==
    \/ node.tag \in SkippedTags
    \/ Attr(node.attrs, "id") # None /\ is_noise_identifier(Attr(node.attrs, "id"))
    \/ \E c \in classes(node.attrs) : is_noise_identifier(c)

Children(nodes, el) == InDocOrder(nodes, {n \in 1..Len(nodes) : nodes[n].parent = el})

RECURSIVE WalkChildren(_, _)
WalkChildren(nodes, cs) ==
    IF cs = <<>> THEN <<>>
    ELSE LET c == Head(cs)
         IN  (IF nodes[c].kind = "elem"
              THEN IF IsSkippedChild(nodes[c]) THEN <<>>
                   ELSE WalkChildren(nodes, Children(nodes, c))
              ELSE <<nodes[c].text>>)
             \o WalkChildren(nodes, Tail(cs))

\* the text_parts pushed by extract_text_recursive(element, text_parts)
extract_text_recursive(nodes, el) == WalkChildren(nodes, Children(nodes, el))

(***************************************************************************)
(* CSS selectors used by the extractors                                    *)
(***************************************************************************)
SelTag(t) == [t |-> "tag", a |-> "", v |-> t]
SelId(v) == [t |-> "attr", a |-> "id", v |-> v]
SelClass(v) == [t |-> "class", a |-> "class", v |-> v]
SelAttr(a, v) == [t |-> "attr", a |-> a, v |-> v]

Matches(node, sel) ==
    /\ node.kind = "elem"
    /\ CASE sel.t = "tag"   -> node.tag = sel.v
         [] sel.t = "class" -> sel.v \in classes(node.attrs)
         [] OTHER           -> Attr(node.attrs, sel.a) = sel.v

\* document.select(&sel): the matching elements in document order
select(nodes, sel) ==
    InDocOrder(nodes, {n \in 1..Len(nodes) : Matches(nodes[n], sel)})

(***************************************************************************)
(* Candidate extractors                                                    *)
(***************************************************************************)
\* one rule of extract_mdbook_like: the cleaned text of the first match
StructuralText(nodes, el) == clean_text(html2text(nodes, el))

\* variant: the first rule that matches anything decides
extract_mdbook_like_firstrule(nodes) ==
    LET content  == InDocOrder(nodes, {n \in 1..Len(nodes) :
                        /\ Matches(nodes[n], SelTag("div"))
                        /\ Matches(nodes[n], SelId("content"))})
        main     == select(nodes, SelTag("main"))
        article  == select(nodes, SelTag("article"))
        first    == IF content # <<>> THEN content
                    ELSE IF main # <<>> THEN main ELSE article
        cleaned  == IF first = <<>> THEN "" ELSE StructuralText(nodes, first[1])
    IN  IF count_words(cleaned) > 50 THEN cleaned ELSE None

extract_mdbook_like(nodes) ==
    LET content  == InDocOrder(nodes, {n \in 1..Len(nodes) :
                        /\ Matches(nodes[n], SelTag("div"))
                        /\ Matches(nodes[n], SelId("content"))})
        main     == select(nodes, SelTag("main"))
        article  == select(nodes, SelTag("article"))
        cleaned(m)  == IF m = <<>> THEN "" ELSE StructuralText(nodes, m[1])
        from_content == cleaned(content)
        from_main    == cleaned(main)
        from_article == cleaned(article)
    IN  IF count_words(from_content) > 50 THEN from_content
        ELSE IF count_words(from_main) > 50 THEN from_main
        ELSE IF count_words(from_article) > 50 THEN from_article
        ELSE None

HeuristicSelectors ==
    << SelTag("article"), SelTag("main"), SelAttr("role", "main"),
       SelAttr("itemprop", "articleBody"), SelClass("entry-content"),
       SelClass("post-content"), SelClass("article-content"),
       SelId("content"), SelId("main"), SelClass("content"),
       SelClass("post"), SelClass("article") >>

\* the elements visited by the two nested loops of heuristic_main_extraction
RECURSIVE HeuristicMatches(_, _)
HeuristicMatches(nodes, i) ==
    IF i > Len(HeuristicSelectors) THEN <<>>
    ELSE select(nodes, HeuristicSelectors[i]) \o HeuristicMatches(nodes, i + 1)

HeuristicText(nodes, el) ==
    post_clean_text(join(extract_text_recursive(nodes, el), " "))

\* variant: wc >= best_words, so that the last of several equal candidates
\* is kept
RECURSIVE BestOf_lastwins(_, _, _, _)
BestOf_lastwins(nodes, els, best_text, best_words) ==
    IF els = <<>> THEN best_text
    ELSE LET text == HeuristicText(nodes, Head(els))
             wc   == count_words(text)
         IN  IF wc >= best_words THEN BestOf_lastwins(nodes, Tail(els), text, wc)
             ELSE BestOf_lastwins(nodes, Tail(els), best_text, best_words)

RECURSIVE BestOf(_, _, _, _)
BestOf(nodes, els, best_text, best_words) ==
    IF els = <<>> THEN best_text
    ELSE LET text == HeuristicText(nodes, Head(els))
             wc   == count_words(text)
         IN  IF wc > best_words THEN BestOf(nodes, Tail(els), text, wc)
             ELSE BestOf(nodes, Tail(els), best_text, best_words)

heuristic_main_extraction(toks) ==
    LET nodes == parse_document(toks)
    IN  BestOf(nodes, HeuristicMatches(nodes, 1), "", 0)

fallback_text_extraction(toks) ==
    LET nodes == parse_document(toks)
    IN  clean_text(join(extract_text_recursive(nodes, BodyIx), " "))

\* readability::extractor::extract: an external density heuristic.  Its
\* outcome r is an input of the model: 0 is Err, n > 0 is Ok with the
\* subtree of element n of the preprocessed page as product.content
ReadabilityOutcomes(toks) == {0} \cup Elements(parse_document(preprocess_html(toks)))

\* variant: a failed extraction yields the text of the whole page
readability_extraction_wholepage(pre, r) ==
    post_clean_text(html2text(parse_document(pre), IF r = 0 THEN HtmlIx ELSE r))

readability_extraction(pre, r) ==
    IF r = 0 THEN ""
    ELSE post_clean_text(html2text(parse_document(pre), r))

\* usize::saturating_add.  usize::MAX is 2^64 - 1 on the build targets; the
\* model keeps the saturating form with the largest integer TLC represents
\* (word counts are bounded by the text length and stay far below either)
UsizeMax == 2147483647

\* variant: usize::wrapping_add
wrapping_add(a, b) == IF a > UsizeMax - b THEN a - (UsizeMax - b) - 1 ELSE a + b

saturating_add(a, b) == IF a > UsizeMax - b THEN UsizeMax ELSE a + b

\* variant: the final else keeps the (empty) readability text instead of
\* running the fallback extractor
choose_text_nofallback(pre, readability_text, heuristic_text) ==
    LET rt_words == count_words(readability_text)
        ht_words == count_words(heuristic_text)
    IN  IF rt_words = 0 /\ ht_words > 0 THEN heuristic_text
        ELSE IF ht_words = 0 /\ rt_words > 0 THEN readability_text
        ELSE IF ht_words > saturating_add(rt_words, 20) THEN heuristic_text
        ELSE readability_text

\* step 4 of extract_clean_content: the branch the if-chain takes for the
\* two word counts
selector(rt_words, ht_words) ==
    IF rt_words = 0 /\ ht_words > 0 THEN "heuristic"
    ELSE IF ht_words = 0 /\ rt_words > 0 THEN "readability"
    ELSE IF ht_words > saturating_add(rt_words, 20) THEN "heuristic"
    ELSE IF rt_words > 0 THEN "readability"
    ELSE "fallback"

\* step 4 of extract_clean_content: the selector
choose_text(pre, readability_text, heuristic_text) ==
    LET branch == selector(count_words(readability_text), count_words(heuristic_text))
    IN  IF branch = "heuristic" THEN heuristic_text
        ELSE IF branch = "readability" THEN readability_text
        ELSE fallback_text_extraction(pre)

\* the last-resort conversion of the whole preprocessed page
last_resort_text(pre) == post_clean_text(html2text(parse_document(pre), HtmlIx))

\* steps 2 to 5 of extract_clean_content, after the structural extractor
select_and_finalize(pre, r) ==
    LET chosen == choose_text(pre, readability_extraction(pre, r),
                              heuristic_main_extraction(pre))
        final_text == post_clean_text(chosen)
    IN  IF str_len(final_text) < 80 THEN last_resort_text(pre) ELSE final_text

\* variant: the structural extractor's result does not end the pipeline
extract_clean_content_noshort(toks, r) ==
    select_and_finalize(preprocess_html(toks), r)

extract_clean_content(toks, r) ==
    LET pre     == preprocess_html(toks)
        md_text == extract_mdbook_like(parse_document(pre))
    IN  IF md_text # None /\ str_len(md_text) > 120 THEN post_clean_text(md_text)
        ELSE select_and_finalize(pre, r)

(***************************************************************************)
(* Metadata extractors                                                     *)
(***************************************************************************)
HeadingTags == <<"h1", "h2", "h3", "h4", "h5", "h6">>

\* the inner loop of extract_headings for one selector
RECURSIVE HeadingsOf(_, _, _)
HeadingsOf(nodes, sel, els) ==
    IF els = <<>> THEN <<>>
    ELSE LET text == trim(element_text(nodes, Head(els)))
         IN  (IF text # "" THEN <<[level |-> sel, text |-> text]>> ELSE <<>>)
             \o HeadingsOf(nodes, sel, Tail(els))

\* the outer loop of extract_headings: level in 1..=6
RECURSIVE HeadingsFromLevel(_, _)
HeadingsFromLevel(nodes, level) ==
    IF level > 6 THEN <<>>
    ELSE HeadingsOf(nodes, HeadingTags[level],
                    select(nodes, SelTag(HeadingTags[level])))
         \o HeadingsFromLevel(nodes, level + 1)

\* variant: one pass over "h1, h2, h3, h4, h5, h6" in document order
extract_headings_docorder(nodes) ==
    LET els == InDocOrder(nodes, {n \in 1..Len(nodes) :
                   \E k \in 1..6 : Matches(nodes[n], SelTag(HeadingTags[k]))})
        hs  == [i \in 1..Len(els) |->
                   [level |-> nodes[els[i]].tag,
                    text |-> trim(element_text(nodes, els[i]))]]
    IN  SelectSeq(hs, LAMBDA h : h.text # "")

extract_headings(nodes) == HeadingsFromLevel(nodes, 1)

\* position of the first occurrence of p in s at or after i, or 0
Find(s, p, i) ==
    LET at == {j \in i..(Len(s) - Len(p) + 1) : SubSeq(s, j, j + Len(p) - 1) = p}
    IN  IF at = {} THEN 0 ELSE CHOOSE j \in at : \A m \in at : j <= m

\* Url::join(href).to_string() for an http(s) base and hrefs without
\* dot segments, query or fragment: an absolute href replaces the base, a
\* rooted href replaces the path, any other href replaces the last segment
url_join(base, href) ==
    LET host_at == Find(base, "://", 1) + 3
        path_at == Find(base, "/", host_at)
        origin  == SubSeq(base, 1, path_at - 1)
        slashes == {j \in path_at..Len(base) : Ch(base, j) = "/"}
        dir     == SubSeq(base, 1, CHOOSE j \in slashes : \A m \in slashes : j >= m)
    IN  IF starts_with(href, "http://") \/ starts_with(href, "https://")
        THEN IF Find(href, "/", Find(href, "://", 1) + 3) = 0
             THEN href \o "/" ELSE href
        ELSE IF href = "" THEN base
        ELSE IF starts_with(href, "/") THEN origin \o href
        ELSE dir \o href

\* the scope of the selector "a[href]": no ancestor required
WholeDocument == [t |-> "all", a |-> "", v |-> ""]

\* document.select("<scope> a[href]"), or "a[href]" for WholeDocument
Anchors(nodes, scope) ==
    InDocOrder(nodes, {n \in 1..Len(nodes) :
        /\ Matches(nodes[n], SelTag("a"))
        /\ Attr(nodes[n].attrs, "href") # None
        /\ (scope = WholeDocument \/ \E m \in 1..Len(nodes) :
                                Matches(nodes[m], scope) /\ IsUnder(nodes, n, m))})

\* the loop of extract_links_from_selector
RECURSIVE LinksOf(_, _, _, _, _)
LinksOf(nodes, base_url, els, links, seen_urls) ==
    IF els = <<>> THEN links
    ELSE LET href == Attr(nodes[Head(els)].attrs, "href")
             text == trim(element_text(nodes, Head(els)))
             absolute_url == url_join(base_url, href)
         IN  IF \/ starts_with(href, "#")
                \/ starts_with(href, "javascript:")
                \/ starts_with(href, "mailto:")
             THEN LinksOf(nodes, base_url, Tail(els), links, seen_urls)
             ELSE IF absolute_url \notin seen_urls
             THEN LinksOf(nodes, base_url, Tail(els),
                          Append(links, [url |-> absolute_url, text |-> text]),
                          seen_urls \cup {absolute_url})
             ELSE LinksOf(nodes, base_url, Tail(els), links, seen_urls)

\* variant: the seen set is keyed on the href as written, not on the
\* resolved URL
RECURSIVE LinksOf_rawkey(_, _, _, _, _)
LinksOf_rawkey(nodes, base_url, els, links, seen_urls) ==
    IF els = <<>> THEN links
    ELSE LET href == Attr(nodes[Head(els)].attrs, "href")
             text == trim(element_text(nodes, Head(els)))
         IN  IF \/ starts_with(href, "#")
                \/ starts_with(href, "javascript:")
                \/ starts_with(href, "mailto:")
                \/ href \in seen_urls
             THEN LinksOf_rawkey(nodes, base_url, Tail(els), links, seen_urls)
             ELSE LinksOf_rawkey(nodes, base_url, Tail(els),
                      Append(links, [url |-> url_join(base_url, href), text |-> text]),
                      seen_urls \cup {href})

extract_links_from_selector_rawkey(nodes, base_url, scope) ==
    LinksOf_rawkey(nodes, base_url, Anchors(nodes, scope), <<>>, {})

extract_links_from_selector(nodes, base_url, scope) ==
    LinksOf(nodes, base_url, Anchors(nodes, scope), <<>>, {})

ContentSelectors ==
    << SelTag("article"), SelTag("main"), SelAttr("role", "main"),
       SelAttr("itemprop", "articleBody"), SelClass("entry-content"),
       SelClass("post-content"), SelClass("article-content"),
       SelId("content"), SelId("main") >>

\* variant: a selector is accepted on the number of anchors it matches
RECURSIVE ContentLinksFrom_anchors(_, _, _)
ContentLinksFrom_anchors(nodes, base_url, i) ==
    IF i > Len(ContentSelectors)
    THEN extract_links_from_selector(nodes, base_url, WholeDocument)
    ELSE IF Len(Anchors(nodes, ContentSelectors[i])) >= 3
         THEN extract_links_from_selector(nodes, base_url, ContentSelectors[i])
         ELSE ContentLinksFrom_anchors(nodes, base_url, i + 1)

RECURSIVE ContentLinksFrom(_, _, _)
ContentLinksFrom(nodes, base_url, i) ==
    IF i > Len(ContentSelectors)
    THEN extract_links_from_selector(nodes, base_url, WholeDocument)
    ELSE LET links == extract_links_from_selector(nodes, base_url, ContentSelectors[i])
         IN  IF links # <<>> /\ Len(links) >= 3 THEN links
             ELSE ContentLinksFrom(nodes, base_url, i + 1)

extract_content_links(nodes, base_url) == ContentLinksFrom(nodes, base_url, 1)

\* the language hint of one element of extract_code_blocks
CodeLanguage(attrs) ==
    LET cls  == IF Attr(attrs, "class") = None THEN <<>>
                ELSE split_whitespace(Attr(attrs, "class"))
        hits == {i \in 1..Len(cls) :
                    starts_with(cls[i], "language-") \/ starts_with(cls[i], "lang-")}
        c    == cls[CHOOSE i \in hits : \A j \in hits : i <= j]
    IN  IF hits # {}
        THEN IF starts_with(c, "language-") THEN SubSeq(c, 10, Len(c))
             ELSE SubSeq(c, 6, Len(c))
        ELSE Attr(attrs, "data-lang")

\* the collecting loop of extract_code_blocks
RECURSIVE CodeBlocksOf(_, _)
CodeBlocksOf(nodes, els) ==
    IF els = <<>> THEN <<>>
    ELSE LET code == element_text(nodes, Head(els))
         IN  (IF str_len(trim(code)) < 10 THEN <<>>
              ELSE <<[language |-> CodeLanguage(nodes[Head(els)].attrs),
                      code |-> code, start_char |-> None, end_char |-> None]>>)
             \o CodeBlocksOf(nodes, Tail(els))

\* variant: the key is the code alone
CodeKey_codeonly(cb) == cb.code

\* format!("{:?}:{}", cb.language, &cb.code)
CodeKey(cb) ==
    IF cb.language = None THEN "None:" \o cb.code
    ELSE "Some(\"" \o cb.language \o "\"):" \o cb.code

\* code_blocks.retain(|cb| seen.insert(key))
RECURSIVE RetainUnseen(_, _)
RetainUnseen(blocks, seen) ==
    IF blocks = <<>> THEN <<>>
    ELSE IF CodeKey(Head(blocks)) \in seen THEN RetainUnseen(Tail(blocks), seen)
    ELSE <<Head(blocks)>> \o RetainUnseen(Tail(blocks), seen \cup {CodeKey(Head(blocks))})

extract_code_blocks(nodes) ==
    LET els == InDocOrder(nodes, {n \in 1..Len(nodes) :
                   Matches(nodes[n], SelTag("pre")) \/ Matches(nodes[n], SelTag("code"))})
    IN  RetainUnseen(CodeBlocksOf(nodes, els), {})

extract_published_time(nodes) ==
    LET m == InDocOrder(nodes, {n \in 1..Len(nodes) :
                 /\ Matches(nodes[n], SelTag("meta"))
                 /\ Matches(nodes[n], SelAttr("property", "article:published_time"))})
    IN  IF m # <<>> /\ Attr(nodes[m[1]].attrs, "content") # None
        THEN trim(Attr(nodes[m[1]].attrs, "content"))
        ELSE None

\* the trimmed text of the first element a selector matches, "" if none
FirstText(nodes, sel) ==
    LET m == select(nodes, sel)
    IN  IF m = <<>> THEN "" ELSE trim(element_text(nodes, m[1]))

\* variant: the text of an existing <title> is returned without the
\* is_empty test
extract_title_unchecked(nodes) ==
    IF select(nodes, SelTag("title")) # <<>> THEN FirstText(nodes, SelTag("title"))
    ELSE IF FirstText(nodes, SelTag("h1")) # "" THEN FirstText(nodes, SelTag("h1"))
    ELSE "No Title"

extract_title(nodes) ==
    IF FirstText(nodes, SelTag("title")) # "" THEN FirstText(nodes, SelTag("title"))
    ELSE IF FirstText(nodes, SelTag("h1")) # "" THEN FirstText(nodes, SelTag("h1"))
    ELSE "No Title"

\* whatlang::detect(html): an external statistical detector.  Its outcome is
\* an input of the model: None, or the name of the detected Lang
DetectOutcomes == {None, "Eng", "Fra", "Nld"}

\* the match on info.lang(): ten languages have a fixed code, any other is
\* the lower-cased Debug name
LangCodes ==
    [Eng |-> "en", Spa |-> "es", Fra |-> "fr", Deu |-> "de", Ita |-> "it",
     Por |-> "pt", Rus |-> "ru", Jpn |-> "ja", Kor |-> "ko", Cmn |-> "zh"]

lang_code(lang) ==
    IF lang \in DOMAIN LangCodes THEN LangCodes[lang] ELSE to_ascii_lowercase(lang)

\* the first meta[http-equiv="content-language"] element, as a sequence
ContentLanguageMeta(nodes) ==
    InDocOrder(nodes, {n \in 1..Len(nodes) :
        /\ Matches(nodes[n], SelTag("meta"))
        /\ Matches(nodes[n], SelAttr("http-equiv", "content-language"))})

\* variant: the content-language meta is asked before the lang attribute
detect_language_metafirst(nodes, detected) ==
    LET lang == Attr(nodes[HtmlIx].attrs, "lang")
        meta == ContentLanguageMeta(nodes)
    IN  IF meta # <<>> /\ Attr(nodes[meta[1]].attrs, "content") # None
        THEN trim(Attr(nodes[meta[1]].attrs, "content"))
        ELSE IF lang # None THEN trim(lang)
        ELSE IF detected # None THEN lang_code(detected)
        ELSE "unknown"

detect_language(nodes, detected) ==
    LET lang == Attr(nodes[HtmlIx].attrs, "lang")
        meta == ContentLanguageMeta(nodes)
    IN  IF lang # None THEN trim(lang)
        ELSE IF meta # <<>> /\ Attr(nodes[meta[1]].attrs, "content") # None
        THEN trim(Attr(nodes[meta[1]].attrs, "content"))
        ELSE IF detected # None THEN lang_code(detected)
        ELSE "unknown"

(***************************************************************************)
(* scrape_url: the assembler                                               *)
(***************************************************************************)
\* the URL of a well-formed request; links are resolved against it
BaseUrl == "http://h.test/docs/page"

\* Url::parse(url).scheme() for the URLs of the model: the letters before
\* "://", None when Url::parse fails (a string without a scheme)
url_scheme(url) ==
    LET at == Find(url, "://", 1)
    IN  IF at <= 1 THEN None ELSE to_ascii_lowercase(SubSeq(url, 1, at - 1))

\* Err(anyhow!(..)) of scrape_url
Err(msg) == [error |-> msg]

IsErr(result) == "error" \in DOMAIN result

\* ((word_count as f64 / 200.0).ceil() as u32).max(1)
reading_time(word_count) == Max((word_count + 199) \div 200, 1)

\* the metadata steps of scrape_url and the ScrapeResponse literal
assemble(f, toks, detected, clean_content, word_count) ==
    LET document      == parse_document(toks)
        published_at  == extract_published_time(document)
        code_blocks   == extract_code_blocks(document)
        headings      == extract_headings(document)
        links         == extract_content_links(document, f.url)
    IN  [ url |-> f.url,
          title |-> extract_title(document),
          clean_content |-> clean_content,
          status_code |-> f.status,
          language |-> detect_language(document, detected),
          word_count |-> word_count,
          reading_time_minutes |-> reading_time(word_count),
          headings |-> headings,
          links |-> links,
          code_blocks |-> code_blocks,
          published_at |-> published_at,
          truncated |-> FALSE,
          actual_chars |-> 0,
          max_chars_limit |-> None,
          extraction_score |-> calculate_extraction_score(word_count,
                                  published_at, code_blocks, headings),
          warnings |-> <<>> ]

\* variant: word_count taken from the structural candidate when there is one
extract_response_stale(f, toks, r, detected) ==
    LET clean_content == extract_clean_content(toks, r)
        md_text == extract_mdbook_like(parse_document(preprocess_html(toks)))
    IN  assemble(f, toks, detected, clean_content,
                 count_words(IF md_text # None THEN md_text ELSE clean_content))

\* scrape_url from Html::parse_document on: the extraction from a body
extract_response(f, toks, r, detected) ==
    LET clean_content == extract_clean_content(toks, r)
    IN  assemble(f, toks, detected, clean_content, count_words(clean_content))

\* scrape_url.  f is the outcome of the request: the URL asked for, whether
\* send() and text() succeeded, and the status of the HTTP response
fetch_result(f) ==
    IF url_scheme(f.url) = None THEN Err("Invalid URL")
    ELSE IF url_scheme(f.url) \notin {"http", "https"}
    THEN Err("URL must use HTTP or HTTPS protocol")
    ELSE IF ~f.sent THEN Err("Failed to fetch URL")
    ELSE IF ~f.read THEN Err("Failed to read response body")
    ELSE NoResponse

scrape_url(f, toks, r, detected) ==
    IF fetch_result(f) # NoResponse THEN fetch_result(f)
    ELSE extract_response(f, toks, r, detected)

(***************************************************************************)
(* chat_handler (main.rs): one spawned task per URL, each running          *)
(* scrape_url, joined in spawn order.  A task's locals are its url, the    *)
(* body it fetched, its clean_content and its result; scrape::scrape_url,  *)
(* through which the call goes, is taken to hand it to                     *)
(* RustScraper::scrape_url.                                                *)
(***************************************************************************)
\* variant: the body is kept in one buffer of the shared scraper, which
\* holds what the highest-numbered task that has fetched put there
task_document_shared(ts, i) ==
    LET fetched == {j \in 1..Len(ts) : ts[j].html # <<>>}
    IN  ts[CHOOSE j \in fetched : \A k \in fetched : j >= k].html

\* the body a task's extraction steps read: its local html
task_document(ts, i) == ts[i].html

\* send() and text(): the task gets the body, or ends with the error
task_fetch(ts, i) ==
    IF fetch_result(ts[i].f) # NoResponse
    THEN [ts EXCEPT ![i].result = fetch_result(ts[i].f), ![i].pc = "done"]
    ELSE [ts EXCEPT ![i].html = ts[i].body, ![i].pc = "fetched"]

\* extract_clean_content and count_words on the task's body
task_extract(ts, i) ==
    [ts EXCEPT ![i].clean_content =
                   extract_clean_content(task_document(ts, i), ts[i].r),
               ![i].pc = "extracted"]

\* the metadata of the task's body and the ScrapeResponse literal
task_assemble(ts, i) ==
    [ts EXCEPT ![i].result =
                   assemble(ts[i].f, task_document(ts, i), ts[i].detected,
                            ts[i].clean_content, count_words(ts[i].clean_content)),
               ![i].pc = "done"]

\* for task in tasks { match task.await .. }: the next task in spawn order
next_join(ts) ==
    LET open == {j \in 1..Len(ts) : ts[j].pc # "joined"}
    IN  IF open = {} THEN 0 ELSE CHOOSE j \in open : \A k \in open : j <= k

(***************************************************************************)
(* call_tool "scrape_url": the display layer of the HTTP service (mcp.rs)  *)
(* and of the stdio service (stdio_service.rs)                             *)
(***************************************************************************)
DefaultMaxChars == 10000

\* an Option<usize>: <<>> is None, <<n>> is Some(n)
Some(n) == <<n>>

\* the max_chars argument, else the MAX_CONTENT_CHARS variable, else 10000
max_chars_of(arg, env) ==
    IF arg # <<>> THEN arg[1] ELSE IF env # <<>> THEN env[1] ELSE DefaultMaxChars

\* the three advisory warnings, pushed in this order
push_warnings(content) ==
    (IF content.truncated THEN <<"content_truncated">> ELSE <<>>)
    \o (IF content.word_count < 50 THEN <<"short_content">> ELSE <<>>)
    \o (IF content.extraction_score < (4 * ScoreScale) \div 10
        THEN <<"low_extraction_score">> ELSE <<>>)

\* chars().take(max_chars) of an ASCII text
take_chars(text, n) == SubSeq(text, 1, Min(n, Len(text)))

\* content_preview: the shown text and which notice is put with it
content_preview(content, max_chars) ==
    IF content.clean_content = "" THEN [text |-> "", notice |-> "no_content"]
    ELSE IF content.word_count < 10
    THEN [text |-> take_chars(content.clean_content, max_chars),
          notice |-> "very_short"]
    ELSE [text |-> take_chars(content.clean_content, max_chars),
          notice |-> IF str_len(content.clean_content) > max_chars
                     THEN "truncated" ELSE "none"]

\* variant: the record's clean_content is cut to max_chars as well
set_truncation_cutting(content, max_chars) ==
    [content EXCEPT !.actual_chars = str_len(content.clean_content),
                    !.max_chars_limit = Some(max_chars),
                    !.truncated = str_len(content.clean_content) > max_chars,
                    !.clean_content = take_chars(@, max_chars)]

\* "Set truncation metadata": the three assignments to the record
set_truncation(content, max_chars) ==
    [content EXCEPT !.actual_chars = str_len(content.clean_content),
                    !.max_chars_limit = Some(max_chars),
                    !.truncated = str_len(content.clean_content) > max_chars]

\* the scrape_url arm of call_tool, from the result of the scrape on; the
\* two services differ in is_error of a failed scrape only
call_tool(service, result, arg, env, output_format) ==
    IF IsErr(result)
    THEN [service |-> service, is_error |-> service = "http",
          text |-> "Scraping failed: " \o result.error]
    ELSE LET max_chars == max_chars_of(arg, env)
             marked    == set_truncation(result, max_chars)
             content   == [marked EXCEPT !.warnings = @ \o push_warnings(marked)]
         IN  [service |-> service, is_error |-> FALSE, content |-> content,
              format |-> output_format,
              preview |-> IF output_format = "json" THEN [text |-> "", notice |-> "json"]
                          ELSE content_preview(content, max_chars)]

(***************************************************************************)
(* search_web_with_params (search.rs): cache lookup, the request to        *)
(* SearXNG under backoff::future::retry, conversion, cache fill and        *)
(* history log                                                             *)
(***************************************************************************)
\* format!("q={}|default", query): the key of a call without overrides
cache_key(query) == "q=" \o query \o "|default"

\* StatusCode::is_success and StatusCode::is_server_error
is_success(status) == status >= 200 /\ status <= 299
is_server_error(status) == status >= 500 /\ status <= 599

\* with_max_elapsed_time(4 s), in seconds
MaxElapsedTime == 4

\* variant: every non-success status is transient
attempt_result_alltransient(o) ==
    IF o.kind = "transport" THEN "transient"
    ELSE IF ~is_success(o.status) THEN "transient"
    ELSE IF o.kind = "unparseable" THEN "transient"
    ELSE "ok"

\* the closure given to retry, for one outcome o of the request: a
\* transport error, or a response with a status and a body that parses as
\* a SearxngResponse or does not
attempt_result(o) ==
    IF o.kind = "transport" THEN "transient"
    ELSE IF ~is_success(o.status)
         THEN IF is_server_error(o.status) THEN "transient" ELSE "permanent"
    ELSE IF o.kind = "unparseable" THEN "transient"
    ELSE "ok"

\* the conversion loop: a result whose url has been seen is left out
RECURSIVE convert_results(_, _)
convert_results(results, seen) ==
    IF results = <<>> THEN <<>>
    ELSE IF Head(results).url \in seen THEN convert_results(Tail(results), seen)
    ELSE <<Head(results)>>
         \o convert_results(Tail(results), seen \cup {Head(results).url})

(***************************************************************************)
(* Inputs                                                                  *)
(***************************************************************************)
MaxChunks == 3
MaxRuns == 2
MaxWordCount == 2100
MaxCodeBlocks == 1
MaxHeadings == 3
MaxBlocks == 2
MaxMetaBlocks == 3
MaxHeadBlocks == 3
MaxServiceBlocks == 1
MaxSelWords == 25
MaxTasks == 2
MaxIdentChunks == 3
MaxExtractBlocks == 2
MaxLinkBlocks == 3
MaxCalls == 2

\* strings handed to the normalizer: up to MaxChunks pieces
TextChunks ==
    {"abc", "ab", "Share", "shared", "cookie", "Comments", "x y",
     " ", "   ", "\n", "\n\n\n"}

RECURSIVE TextsOfLen(_)
TextsOfLen(n) ==
    IF n = 0 THEN {""}
    ELSE {t \o c : t \in TextsOfLen(n - 1), c \in TextChunks}

NormalizerInputs == UNION {TextsOfLen(n) : n \in 0..MaxChunks}

\* id and class tokens: up to MaxIdentChunks pieces
IdentChunks ==
    {"lead", "er", "ad", "-", "_", "s", "Nav", "HERO", "bar", "Side", "x",
     "content"}

RECURSIVE IdentsOfLen(_)
IdentsOfLen(n) ==
    IF n = 0 THEN {""}
    ELSE {t \o c : t \in IdentsOfLen(n - 1), c \in IdentChunks}

Identifiers == UNION {IdentsOfLen(n) : n \in 0..MaxIdentChunks}

\* page texts: 60 words / 179 bytes, 51 words / 101 bytes, 9 words / 89
\* bytes, 2 words / 11 bytes, 61 words with a boilerplate word, the banner
WordsLong == Repeat("ab ", 59) \o "ab"
Words51 == Repeat("a ", 50) \o "a"
WordsMid == Repeat("paragraph ", 8) \o "paragraph"
WordsShort == "hello world"
WordsLongShare == WordsLong \o " share"
CookieText == "Accept all cookies"

CookieBanner == Element("div", [class |-> "cookie-banner"], <<Text(CookieText)>>)

ContentBlocks ==
    { Element("div", [id |-> "content"], <<Text(WordsLong)>>),
      Element("div", [id |-> "content"], <<Text(Words51)>>),
      Element("div", [id |-> "content"], <<Text(WordsLongShare)>>),
      Element("div", [id |-> "content"], <<Text(WordsShort)>>),
      Element("section", [id |-> "content"], <<Text(WordsLong)>>),
      Element("article", NoAttrs, <<Text(WordsLong)>>),
      Element("main", NoAttrs, <<Text(WordsMid)>>),
      Element("div", NoAttrs, <<Text(WordsShort)>>),
      Element("div", NoAttrs, <<Text(WordsMid)>>),
      Element("div", NoAttrs, <<Text(WordsLong)>>),
      Element("div", NoAttrs, <<Text(CookieText)>>),
      Element("nav", NoAttrs, <<Text(WordsShort)>>),
      Element("footer", NoAttrs, <<Text(WordsMid)>>),
      Element("div", [class |-> "promo"],
              Element("div", NoAttrs, <<Text(WordsShort)>>) \o <<Text(WordsMid)>>),
      CookieBanner }

RECURSIVE PagesOfLen(_, _)
PagesOfLen(blocks, n) ==
    IF n = 0 THEN {<<>>}
    ELSE {p \o b : p \in PagesOfLen(blocks, n - 1), b \in blocks}

ContentPages == UNION {PagesOfLen(ContentBlocks, n) : n \in 0..MaxBlocks}

\* pages for the preprocessor and the heuristic extractor: candidates with
\* boilerplate inside, around and on them; every text node has its own words
ExtractBlocks ==
    { Element("article", NoAttrs,
              <<Text("story one two")>>
              \o Element("nav", NoAttrs, <<Text("menu links")>>)
              \o <<Text("story end")>>),
      Element("main", [class |-> "hero"], <<Text("hero main text here")>>),
      Element("nav", NoAttrs,
              Element("article", NoAttrs, <<Text("teaser inside nav")>>)),
      Element("div", [id |-> "main"],
              Element("span", [class |-> "btn share-buttons"], <<Text("tweet this")>>)
              \o Element("p", NoAttrs,
                         <<Text("body text")>>
                         \o Element("em", [id |-> "x-ad"], <<Text("buy now")>>))),
      Element("section", [class |-> "post"],
              Element("header", NoAttrs, <<Text("site name")>>)
              \o Element("p", NoAttrs, <<Text("first post words")>>)),
      Element("div", [class |-> "content"], <<Text("plain div text")>>),
      Element("div", [class |-> "article"], <<Text("other div words")>>),
      Element("div", [class |-> "promo"],
              Element("div", NoAttrs, <<Text("offer")>>) \o <<Text("after offer")>>),
      Element("div", ("data-id" :> "promo-1"), <<Text("data block")>>),
      Element("p", NoAttrs, <<Text("loose paragraph")>>),
      Element("script", NoAttrs, <<Text("var a")>>) }

ExtractPages == UNION {PagesOfLen(ExtractBlocks, n) : n \in 0..MaxExtractBlocks}

\* pages for the metadata extractors: headings, anchors and code
RustCode == "fn main() {}"

MetaBlocks ==
    { Element("h1", NoAttrs, <<Text("A")>>),
      Element("h2", NoAttrs, <<Text(" B ")>>),
      Element("h2", NoAttrs, <<Text("  ")>>),
      Element("h3", NoAttrs, <<Text("C")>>),
      Element("a", [href |-> "a"], <<Text("one")>>),
      Element("a", [href |-> "/docs/a"], <<Text("two")>>),
      Element("a", [href |-> "http://h.test/b"], <<Text("three")>>),
      Element("a", [href |-> "#top"], <<Text("top")>>),
      Element("article", NoAttrs,
              Element("a", [href |-> "c"], <<Text("four")>>)
              \o Element("a", [href |-> "http://h.test"], <<Text("home")>>)
              \o Element("a", [href |-> "/docs/c"], <<Text("five")>>)
              \o Element("a", [href |-> "/docs/a"], <<Text("six")>>)),
      Element("pre", NoAttrs,
              Element("code", [class |-> "hljs language-rust"], <<Text(RustCode)>>)),
      Element("code", [class |-> "lang-rust"], <<Text(RustCode)>>),
      Element("code", ("data-lang" :> "py"), <<Text("print(1234)")>>),
      Element("code", NoAttrs, <<Text("short")>>) }

MetaPages == UNION {PagesOfLen(MetaBlocks, n) : n \in 0..MaxMetaBlocks}

\* pages for the scoped link extraction: content areas with three anchors
\* of which three or fewer give a link
Anchor(href, text) == Element("a", [href |-> href], <<Text(text)>>)

LinkBlocks ==
    { Anchor("a", "one"),
      Anchor("#top", "top"),
      Element("article", NoAttrs,
              Anchor("c", "c1") \o Anchor("/docs/c", "c2") \o Anchor("d", "d1")),
      Element("article", NoAttrs,
              Anchor("p", "p1") \o Anchor("q", "q1") \o Anchor("r", "r1")),
      Element("main", NoAttrs,
              Anchor("e", "e1") \o Anchor("f", "f1") \o Anchor("g", "g1")),
      Element("div", [id |-> "content"],
              Anchor("h", "h1") \o Anchor("mailto:x@h.test", "mail") \o Anchor("i", "i1")),
      Element("div", [id |-> "main"],
              Anchor("j", "j1") \o Anchor("k", "k1") \o Anchor("/docs/l", "l1")),
      Element("div", [class |-> "entry-content"],
              Anchor("m", "m1") \o Anchor("n", "n1")) }

LinkPages == UNION {PagesOfLen(LinkBlocks, n) : n \in 0..MaxLinkBlocks}

\* searches: the queries, the outcomes of one request and the seconds a
\* request and the wait before it take
Queries == {"rust", "tla"}

Hit(url, title) == [url |-> url, title |-> title]

SearxngResults ==
    { <<Hit("http://a.test/", "A")>>,
      <<Hit("http://a.test/", "A"), Hit("http://b.test/", "B"),
        Hit("http://a.test/", "A again")>> }

RequestOutcomes ==
    {[kind |-> "transport", status |-> 0, results |-> <<>>]}
    \cup {[kind |-> "response", status |-> st, results |-> <<>>] : st \in {404, 503}}
    \cup {[kind |-> "unparseable", status |-> 200, results |-> <<>>]}
    \cup {[kind |-> "response", status |-> 200, results |-> r] : r \in SearxngResults}

AttemptSeconds == {2, 3}

\* pages for the language and the title
HeadBlocks ==
    { <<Open("html", [lang |-> "fr"])>>,
      <<Open("html", [lang |-> " "])>>,
      <<Open("meta", ("http-equiv" :> "content-language") @@ ("content" :> "es"))>>,
      <<Open("meta", ("http-equiv" :> "content-language"))>>,
      Element("title", NoAttrs, <<Text(" Page ")>>),
      Element("title", NoAttrs, <<Text("  ")>>),
      Element("h1", NoAttrs, <<Text("Head One")>>),
      Element("h1", NoAttrs, <<Text(" ")>>),
      Element("h1", NoAttrs, <<Text("Other")>>) }

HeadPages == UNION {PagesOfLen(HeadBlocks, n) : n \in 0..MaxHeadBlocks}

\* requests: a string that is no URL, a URL of another scheme, a request
\* that fails to be sent, and responses of several statuses whose body
\* can or cannot be read
Statuses == {200, 204, 404, 500}

FetchOutcomes ==
    { [url |-> u, sent |-> FALSE, read |-> FALSE, status |-> 0] :
          u \in {"h.test/docs/page", "ftp://h.test/docs/page", BaseUrl} }
    \cup { [url |-> BaseUrl, sent |-> TRUE, read |-> r, status |-> st] :
              r \in BOOLEAN, st \in Statuses }

\* 12 words, 59 characters, 71 bytes
WordsAccented == Repeat("café ", 11) \o "café"

ServiceBlocks ==
    ContentBlocks \cup {Element("p", NoAttrs, <<Text(WordsAccented)>>)}

ServicePages == UNION {PagesOfLen(ServiceBlocks, n) : n \in 0..MaxServiceBlocks}

\* the max_chars argument and the MAX_CONTENT_CHARS variable, if set
MaxCharsArgs == {<<>>, Some(0), Some(60), Some(100)}
MaxCharsEnv == {<<>>, Some(150)}

\* the URLs chat_handler scrapes and what their servers answer
TaskUrl(i) == "http://h.test/docs/p" \o ToDigits(i)

TaskPages ==
    { Element("div", [id |-> "content"], <<Text(WordsLong)>>),
      Element("h1", NoAttrs, <<Text("A")>>) \o Element("div", NoAttrs, <<Text(WordsMid)>>),
      Element("nav", NoAttrs, <<Text(WordsShort)>>) }

SpawnedTask(i, sent, body) ==
    [ f |-> [url |-> TaskUrl(i), sent |-> sent, read |-> sent, status |-> 200],
      body |-> body, r |-> 0, detected |-> None,
      pc |-> "spawned", html |-> <<>>, clean_content |-> "", result |-> NoResponse ]

TaskLists(n) ==
    {[i \in 1..n |-> SpawnedTask(i, sent[i], body[i])] :
        sent \in [1..n -> BOOLEAN], body \in [1..n -> TaskPages]}

\* word counts of the two candidates: small ones and the largest ones
SelCounts == (0..MaxSelWords) \cup {UsizeMax - k : k \in 0..MaxSelWords}

\* inputs of the scorer: a date (or none), code blocks and headings
PublishedInputs == {None, "", "2024-01-01"}

CodeSamples ==
    { [language |-> "rust", code |-> RustCode, start_char |-> None, end_char |-> None],
      [language |-> None, code |-> "print(1234)", start_char |-> None, end_char |-> None] }

HeadingSamples == { [level |-> "h1", text |-> "A"], [level |-> "h3", text |-> "C"] }

RECURSIVE ListsOfLen(_, _)
ListsOfLen(S, n) ==
    IF n = 0 THEN {<<>>}
    ELSE {Append(l, x) : l \in ListsOfLen(S, n - 1), x \in S}

ListsUpTo(S, max) == UNION {ListsOfLen(S, n) : n \in 0..max}

(***************************************************************************)
(* Specifications                                                          *)
(***************************************************************************)
NoArgs == [wc |-> 0, published_at |-> None, code_blocks |-> <<>>, headings |-> <<>>]

\* a request that is fetched: 200 with a readable body
FetchedOk == [url |-> BaseUrl, sent |-> TRUE, read |-> TRUE, status |-> 200]

NoShown == [none |-> TRUE]

IdleText ==
    text_in = "" /\ text_out = "" /\ text_prev = "" /\ text_runs = 0 /\ text_clean = ""
IdleScore   == score_args = NoArgs /\ score = NoScore
IdleScrape  == /\ fetch = FetchedOk /\ html = <<>> /\ readability = 0
               /\ whatlang = None /\ response = NoResponse
IdleDisplay == shown = NoShown
IdleSelect  == sel_args = [rt |-> 0, ht |-> 0] /\ sel_choice = None
IdleTasks   == tasks = <<>> /\ scraped_content = <<>>
IdleExtract == pre_out = <<>> /\ heuristic_out = <<>>
IdleNoise   == noise_in = "" /\ noise_out = <<>>
IdleSearch  == search = NoSearch /\ search_cache = <<>> /\ search_history = <<>>

\* scrape_url on one fetched page
Init ==
    /\ fetch = FetchedOk
    /\ html \in ContentPages
    /\ readability \in ReadabilityOutcomes(html)
    /\ whatlang = None
    /\ response = NoResponse
    /\ IdleText /\ IdleScore /\ IdleDisplay /\ IdleSelect /\ IdleTasks
    /\ IdleNoise /\ IdleSearch /\ IdleExtract

ScrapeUrl ==
    /\ response = NoResponse
    /\ response' = scrape_url(fetch, html, readability, whatlang)
    /\ UNCHANGED <<fetch, html, readability, whatlang>>
    /\ UNCHANGED <<textVars, scoreVars, shown, selVars, taskVars,
                 noiseVars, searchVars, extractVars>>

Next == ScrapeUrl

Spec == Init /\ [][Next]_vars

\* scrape_url on pages with headings, links and code
InitMeta ==
    /\ fetch = FetchedOk
    /\ html \in MetaPages
    /\ readability = 0
    /\ whatlang = None
    /\ response = NoResponse
    /\ IdleText /\ IdleScore /\ IdleDisplay /\ IdleSelect /\ IdleTasks
    /\ IdleNoise /\ IdleSearch /\ IdleExtract

SpecMeta == InitMeta /\ [][Next]_vars

\* scrape_url on pages with anchors inside and outside content areas
InitLinks ==
    /\ fetch = FetchedOk
    /\ html \in LinkPages
    /\ readability = 0
    /\ whatlang = None
    /\ response = NoResponse
    /\ IdleText /\ IdleScore /\ IdleDisplay /\ IdleSelect /\ IdleTasks
    /\ IdleNoise /\ IdleSearch /\ IdleExtract

SpecLinks == InitLinks /\ [][Next]_vars

\* scrape_url on pages with language and title markup
InitHead ==
    /\ fetch = FetchedOk
    /\ html \in HeadPages
    /\ readability = 0
    /\ whatlang \in DetectOutcomes
    /\ response = NoResponse
    /\ IdleText /\ IdleScore /\ IdleDisplay /\ IdleSelect /\ IdleTasks
    /\ IdleNoise /\ IdleSearch /\ IdleExtract

SpecHead == InitHead /\ [][Next]_vars

\* a request through one of the services: fetch, extraction and display
InitService ==
    /\ fetch \in FetchOutcomes
    /\ html \in (IF fetch.sent /\ fetch.read THEN ServicePages ELSE {<<>>})
    /\ readability = 0
    /\ whatlang = None
    /\ response = NoResponse
    /\ IdleText /\ IdleScore /\ IdleDisplay /\ IdleSelect /\ IdleTasks
    /\ IdleNoise /\ IdleSearch /\ IdleExtract

CallTool(service) ==
    /\ response # NoResponse
    /\ shown = NoShown
    /\ \E arg \in MaxCharsArgs, env \in MaxCharsEnv, output_format \in {"text", "json"} :
           shown' = call_tool(service, response, arg, env, output_format)
    /\ UNCHANGED <<textVars, scoreVars, scrapeVars, selVars, taskVars,
                 noiseVars, searchVars, extractVars>>

CallToolHttp == CallTool("http")

CallToolStdio == CallTool("stdio")

NextService == ScrapeUrl \/ CallToolHttp \/ CallToolStdio

SpecService == InitService /\ [][NextService]_vars

\* the selector on arbitrary pairs of word counts
InitSelect ==
    /\ sel_args \in [rt : SelCounts, ht : SelCounts]
    /\ sel_choice = None
    /\ IdleText /\ IdleScore /\ IdleScrape /\ IdleDisplay /\ IdleTasks
    /\ IdleNoise /\ IdleSearch /\ IdleExtract

Select ==
    /\ sel_choice = None
    /\ sel_choice' = selector(sel_args.rt, sel_args.ht)
    /\ UNCHANGED <<sel_args, textVars, scoreVars, scrapeVars, shown, taskVars,
                 noiseVars, searchVars, extractVars>>

NextSelect == Select

SpecSelect == InitSelect /\ [][NextSelect]_vars

\* chat_handler with its scrape tasks running concurrently
InitTasks ==
    /\ tasks \in UNION {TaskLists(n) : n \in 1..MaxTasks}
    /\ scraped_content = <<>>
    /\ IdleText /\ IdleScore /\ IdleScrape /\ IdleDisplay /\ IdleSelect
    /\ IdleNoise /\ IdleSearch /\ IdleExtract

TaskFetch(i) ==
    /\ tasks[i].pc = "spawned"
    /\ tasks' = task_fetch(tasks, i)
    /\ UNCHANGED <<scraped_content, textVars, scoreVars, scrapeVars, shown, selVars,
                 noiseVars, searchVars, extractVars>>

TaskExtract(i) ==
    /\ tasks[i].pc = "fetched"
    /\ tasks' = task_extract(tasks, i)
    /\ UNCHANGED <<scraped_content, textVars, scoreVars, scrapeVars, shown, selVars,
                 noiseVars, searchVars, extractVars>>

TaskAssemble(i) ==
    /\ tasks[i].pc = "extracted"
    /\ tasks' = task_assemble(tasks, i)
    /\ UNCHANGED <<scraped_content, textVars, scoreVars, scrapeVars, shown, selVars,
                 noiseVars, searchVars, extractVars>>

Join ==
    /\ next_join(tasks) # 0
    /\ LET j == next_join(tasks)
       IN  /\ tasks[j].pc = "done"
           /\ tasks' = [tasks EXCEPT ![j].pc = "joined"]
           /\ scraped_content' = IF IsErr(tasks[j].result) THEN scraped_content
                                  ELSE Append(scraped_content, tasks[j].result)
    /\ UNCHANGED <<textVars, scoreVars, scrapeVars, shown, selVars,
                 noiseVars, searchVars, extractVars>>

Fetching == \E i \in 1..Len(tasks) : TaskFetch(i)

Extracting == \E i \in 1..Len(tasks) : TaskExtract(i)

Assembling == \E i \in 1..Len(tasks) : TaskAssemble(i)

NextTasks == Fetching \/ Extracting \/ Assembling \/ Join

SpecTasks == InitTasks /\ [][NextTasks]_vars

\* steps 1 and 3 of extract_clean_content: the page is preprocessed and the
\* heuristic extractor runs on the result
InitExtract ==
    /\ fetch = FetchedOk
    /\ html \in ExtractPages
    /\ readability = 0 /\ whatlang = None /\ response = NoResponse
    /\ pre_out = <<>> /\ heuristic_out = <<>>
    /\ IdleText /\ IdleScore /\ IdleDisplay /\ IdleSelect /\ IdleTasks
    /\ IdleNoise /\ IdleSearch

PreprocessHtml ==
    /\ pre_out = <<>>
    /\ pre_out' = <<preprocess_html(html)>>
    /\ UNCHANGED <<heuristic_out, textVars, scoreVars, scrapeVars, shown,
                   selVars, taskVars, noiseVars, searchVars>>

HeuristicMainExtraction ==
    /\ pre_out # <<>> /\ heuristic_out = <<>>
    /\ heuristic_out' = <<heuristic_main_extraction(pre_out[1])>>
    /\ UNCHANGED <<pre_out, textVars, scoreVars, scrapeVars, shown,
                   selVars, taskVars, noiseVars, searchVars>>

NextExtract == PreprocessHtml \/ HeuristicMainExtraction

SpecExtract == InitExtract /\ [][NextExtract]_vars

\* search_web_with_params, called up to MaxCalls times on one AppState,
\* whose memory (the history) is enabled or not.
\* The entries of search_cache live 10 minutes; the calls are taken to fall
\* within that time.  cache0 and history0 keep what the cache and the
\* history were when the call began.
InitSearch ==
    /\ search \in [pc : {"idle"}, calls : {0}, memory : BOOLEAN]
    /\ search_cache = <<>>
    /\ search_history = <<>>
    /\ IdleText /\ IdleScore /\ IdleScrape /\ IdleDisplay /\ IdleSelect
    /\ IdleTasks /\ IdleNoise /\ IdleExtract

\* from the entry to the cache lookup: a hit returns the cached results
SearchBegin ==
    /\ search.pc \in {"idle", "done"}
    /\ search.calls < MaxCalls
    /\ \E query \in Queries :
         LET call == [pc |-> "retry", calls |-> search.calls + 1,
                      query |-> query, memory |-> search.memory,
                      attempts |-> <<>>, elapsed |-> 0,
                      result |-> NoResponse,
                      cache0 |-> search_cache, history0 |-> search_history]
         IN  search' = IF cache_key(query) \in DOMAIN search_cache
                       THEN [call EXCEPT !.pc = "done",
                                         !.result = [results |-> search_cache[cache_key(query)]]]
                       ELSE call
    /\ UNCHANGED <<search_cache, search_history, textVars, scoreVars,
                   scrapeVars, shown, selVars, taskVars, noiseVars, extractVars>>

\* one run of the closure inside retry, and retry's decision on its result:
\* Ok ends the loop, a permanent error returns it, a transient error is
\* returned when the backoff's time is used up and retried otherwise
SearchAttempt ==
    /\ search.pc = "retry"
    /\ \E o \in RequestOutcomes, d \in AttemptSeconds :
         LET tried == [search EXCEPT !.attempts = Append(@, o), !.elapsed = @ + d]
             r     == attempt_result(o)
         IN  search' =
                 IF r = "ok" THEN [tried EXCEPT !.pc = "convert"]
                 ELSE IF r = "permanent" \/ tried.elapsed > MaxElapsedTime
                 THEN [tried EXCEPT !.pc = "done",
                                    !.result = Err("SearXNG request failed")]
                 ELSE tried
    /\ UNCHANGED <<search_cache, search_history, textVars, scoreVars,
                   scrapeVars, shown, selVars, taskVars, noiseVars, extractVars>>

\* after retry returned Ok: conversion, cache fill, history log, return
SearchFinish ==
    /\ search.pc = "convert"
    /\ LET results == convert_results(search.attempts[Len(search.attempts)].results, {})
       IN  /\ search_cache' = (cache_key(search.query) :> results) @@ search_cache
           /\ search_history' = IF search.memory
                                 THEN Append(search_history,
                                             [query |-> search.query, results |-> results])
                                 ELSE search_history
           /\ search' = [search EXCEPT !.pc = "done", !.result = [results |-> results]]
    /\ UNCHANGED <<textVars, scoreVars, scrapeVars, shown, selVars, taskVars,
                   noiseVars, extractVars>>

NextSearch == SearchBegin \/ SearchAttempt \/ SearchFinish

SpecSearch == InitSearch /\ [][NextSearch]_vars

\* the noise predicate on an id or class token
InitNoise ==
    /\ noise_in \in Identifiers
    /\ noise_out = <<>>
    /\ IdleText /\ IdleScore /\ IdleScrape /\ IdleDisplay /\ IdleSelect
    /\ IdleTasks /\ IdleSearch /\ IdleExtract

IsNoiseIdentifier ==
    /\ noise_out = <<>>
    /\ noise_out' = <<is_noise_identifier(noise_in)>>
    /\ UNCHANGED <<noise_in, textVars, scoreVars, scrapeVars, shown, selVars,
                   taskVars, searchVars, extractVars>>

NextNoise == IsNoiseIdentifier

SpecNoise == InitNoise /\ [][NextNoise]_vars

\* the normalizer applied to a string and then to its own output
InitText ==
    /\ text_in \in NormalizerInputs
    /\ text_out = "" /\ text_prev = "" /\ text_runs = 0 /\ text_clean = ""
    /\ IdleScore /\ IdleScrape /\ IdleDisplay /\ IdleSelect /\ IdleTasks
    /\ IdleNoise /\ IdleSearch /\ IdleExtract

PostCleanText ==
    /\ text_runs < MaxRuns
    /\ text_out' = post_clean_text(IF text_runs = 0 THEN text_in ELSE text_out)
    /\ text_clean' = clean_text(IF text_runs = 0 THEN text_in ELSE text_out)
    /\ text_prev' = text_out
    /\ text_runs' = text_runs + 1
    /\ UNCHANGED <<text_in, scoreVars, scrapeVars, shown, selVars, taskVars,
                 noiseVars, searchVars, extractVars>>

NextText == PostCleanText

SpecText == InitText /\ [][NextText]_vars

\* the scorer on arbitrary structural signals
InitScore ==
    /\ score_args \in [wc : 0..MaxWordCount, published_at : PublishedInputs,
                       code_blocks : ListsUpTo(CodeSamples, MaxCodeBlocks),
                       headings : ListsUpTo(HeadingSamples, MaxHeadings)]
    /\ score = NoScore
    /\ IdleText /\ IdleScrape /\ IdleDisplay /\ IdleSelect /\ IdleTasks
    /\ IdleNoise /\ IdleSearch /\ IdleExtract

CalculateScore ==
    /\ score = NoScore
    /\ score' = calculate_extraction_score(score_args.wc, score_args.published_at,
                                           score_args.code_blocks, score_args.headings)
    /\ UNCHANGED <<score_args, textVars, scrapeVars, shown, selVars, taskVars,
                 noiseVars, searchVars, extractVars>>

NextScore == CalculateScore

SpecScore == InitScore /\ [][NextScore]_vars

(***************************************************************************)
(* Properties                                                              *)
(***************************************************************************)
Scraped == response # NoResponse /\ ~IsErr(response)

\* what the extractors of the current request see
Pre == preprocess_html(html)
PreDoc == parse_document(Pre)
RawDoc == parse_document(html)

\* the cleaned text of the first <div id="content"> of the preprocessed
\* page, None when the page has no such element
ContentDivText ==
    LET doc == PreDoc
        div == InDocOrder(doc, {n \in 1..Len(doc) :
                   /\ Matches(doc[n], SelTag("div"))
                   /\ Matches(doc[n], SelId("content"))})
    IN  IF div = <<>> THEN None ELSE StructuralText(doc, div[1])

NoArticleNoMain ==
    LET doc == PreDoc
    IN  select(doc, SelTag("article")) \o select(doc, SelTag("main")) = <<>>

StructuralCandidate == extract_mdbook_like(PreDoc)
ReadabilityCandidate == readability_extraction(Pre, readability)
HeuristicCandidate == heuristic_main_extraction(Pre)
FallbackOutput == fallback_text_extraction(Pre)

ShortCircuit ==
    LET md_text == StructuralCandidate
    IN  md_text # None /\ Len(md_text) > 120

BothCandidatesEmpty ==
    /\ ~ShortCircuit
    /\ count_words(ReadabilityCandidate) = 0
    /\ count_words(HeuristicCandidate) = 0

\* some character data of the preprocessed page is not blank
HasVisibleText ==
    LET doc == PreDoc
    IN  \E n \in 1..Len(doc) : doc[n].kind = "text" /\ trim(doc[n].text) # ""

BodyHasVisibleText ==
    LET doc == PreDoc
    IN  \E n \in 1..Len(doc) :
            doc[n].kind = "text" /\ trim(doc[n].text) # "" /\ IsUnder(doc, n, BodyIx)

ContainsBanner ==
    \E i \in 1..(Len(html) - 2) : SubSeq(html, i, i + 2) = CookieBanner

\* C1: whatever the word count, the presence of a published date, the number
\* of code blocks and the number of headings, the extraction score lies in
\* the closed interval [0.0, 1.0]
C1_ScoreInUnitInterval == score # NoScore => score >= 0 /\ score <= ScoreScale

\* a full score is reached: more than 500 words, date, code and headings
C1_Witness ==
    /\ score = ScoreScale
    /\ score_args.wc >= 500 /\ score_args.published_at # None
    /\ score_args.code_blocks # <<>> /\ Len(score_args.headings) > 2

\* C2: in every returned record word_count is the number of whitespace
\* separated tokens of the returned clean_content, on every extraction path
C2_WordCountOfFinalText ==
    Scraped => response.word_count = count_words(response.clean_content)

\* a record whose final text has another word count than the structural
\* candidate the pipeline had computed on the way
C2_Witness ==
    /\ Scraped
    /\ LET md_text == StructuralCandidate
       IN  md_text # None /\ response.word_count # count_words(md_text)
    /\ response.word_count = count_words(response.clean_content)

\* C3: the normalizer is idempotent: applied to its own output it returns
\* that output
C3_Idempotent == text_runs >= 2 => text_out = text_prev

\* a second run on a text the first run had to change, with a non-empty result
C3_Witness == text_runs = 2 /\ text_out # "" /\ text_out # text_in

\* C4 as stated: with a <div id="content"> of more than 50 words and neither
\* <article> nor <main>, the final clean_text is exactly the structural
\* extractor's cleaned text.  (Stated for the pages whose structural text
\* passes the line filter unchanged; it fails already there.)
C4_StructuralTextReturned ==
    Scraped =>
        LET text == ContentDivText
        IN  (/\ text # None /\ count_words(text) > 50 /\ NoArticleNoMain
             /\ post_clean_text(text) = text)
                => response.clean_content = text

\* C4 amended: when the cleaned text of the first <div id="content"> of the
\* preprocessed page has more than 50 words and more than 120 bytes, the
\* final clean_text is the normalizer's output for that text, which is the
\* text itself or, when the line filter drops it, the empty string; the
\* readability, heuristic and fallback stages have no say
C4_StructuralShortCircuit ==
    Scraped =>
        LET text == ContentDivText
        IN  (text # None /\ count_words(text) > 50 /\ Len(text) > 120)
                => /\ response.clean_content = post_clean_text(text)
                   /\ response.clean_content \in {text, ""}

\* the short circuit returns the structural text although readability
\* succeeded on a subtree with another text
C4_Witness ==
    /\ Scraped
    /\ LET text == ContentDivText
       IN  /\ text # None /\ count_words(text) > 50 /\ Len(text) > 120
           /\ response.clean_content = text
           /\ count_words(ReadabilityCandidate) > count_words(text)

\* C5 as stated: whenever the preprocessed page has any visible text, the
\* final clean_text is not empty.  (Stated for the pages with more than 50
\* words of visible text; it fails already there.)
C5_NonEmptyOutput ==
    (Scraped /\ HasVisibleText /\ count_words(html2text(PreDoc, HtmlIx)) > 50)
        => response.clean_content # ""

\* C6 as stated: when the readability and the heuristic candidate both have
\* word count 0 and <body> has visible text, the final clean_text is the
\* fallback extractor's output and that output is not empty.  (Stated for
\* the pages whose fallback output passes the line filter unchanged; it
\* fails already there.)
C6_FallbackOutputUsed ==
    (Scraped /\ BothCandidatesEmpty /\ BodyHasVisibleText)
        => LET fallback == FallbackOutput
           IN  post_clean_text(fallback) = fallback
                   => response.clean_content = fallback /\ fallback # ""

\* C6 amended: when both candidates have word count 0 the fallback extractor
\* runs; if its normalized output has at least 80 bytes that output is the
\* final clean_text (and is not empty), otherwise the final clean_text is
\* the last-resort conversion of the whole preprocessed page
C6_FallbackOrLastResort ==
    (Scraped /\ BothCandidatesEmpty)
        => LET fallback == FallbackOutput
           IN  IF Len(post_clean_text(fallback)) >= 80
               THEN response.clean_content = fallback /\ fallback # ""
               ELSE response.clean_content = last_resort_text(Pre)

\* the fallback output is used, and it is not what the last resort would give
C6_Witness ==
    /\ Scraped /\ BothCandidatesEmpty /\ BodyHasVisibleText
    /\ LET fallback == FallbackOutput
       IN  /\ Len(post_clean_text(fallback)) >= 80
           /\ response.clean_content = fallback
           /\ fallback # last_resort_text(Pre)

\* C7: for a page that contains <div class="cookie-banner">Accept all
\* cookies</div>, no line of the final clean_text carries the text of that
\* block, whichever path produced the text
C7_NoBannerLine ==
    (Scraped /\ ContainsBanner)
        => LET lines == split_lines(response.clean_content)
           IN  \A i \in 1..Len(lines) : ~Contains(lines[i], CookieText)

\* a page with the banner and other content yields the other content
C7_Witness == Scraped /\ ContainsBanner /\ response.clean_content # ""

HeadingLevel(h) == CHOOSE k \in 1..6 : HeadingTags[k] = h.level

\* the non-empty trimmed texts of the level-k headings in document order
HeadingTextsInDocument(doc, k) ==
    LET hk == SelectSeq([n \in 1..Len(doc) |-> n],
                  LAMBDA n : /\ doc[n].kind = "elem"
                             /\ doc[n].tag = HeadingTags[k]
                             /\ trim(element_text(doc, n)) # "")
    IN  [i \in 1..Len(hk) |-> trim(element_text(doc, hk[i]))]

\* C8: the headings list is grouped by level: a heading never follows one of
\* a higher level number, the headings of one level are the non-empty
\* trimmed texts of that level in document order, so <h2>B</h2><h1>A</h1>
\* gives [(h1, A), (h2, B)]
C8_HeadingsGroupedByLevel ==
    Scraped =>
        LET hs  == response.headings
            doc == RawDoc
        IN  /\ \A i, j \in 1..Len(hs) :
                   i < j => HeadingLevel(hs[i]) <= HeadingLevel(hs[j])
            /\ \A k \in 1..6 :
                   LET level_k == SelectSeq(hs, LAMBDA h : h.level = HeadingTags[k])
                   IN  [i \in 1..Len(level_k) |-> level_k[i].text]
                           = HeadingTextsInDocument(doc, k)

\* the page <h2> B </h2><h1>A</h1>
C8_Witness ==
    /\ Scraped
    /\ html = Element("h2", NoAttrs, <<Text(" B ")>>) \o Element("h1", NoAttrs, <<Text("A")>>)
    /\ response.headings = <<[level |-> "h1", text |-> "A"], [level |-> "h2", text |-> "B"]>>

IsSkippedHref(href) ==
    starts_with(href, "#") \/ starts_with(href, "javascript:") \/ starts_with(href, "mailto:")

\* the (url, text) pairs of the anchors of a scope that are not skipped
LinkCandidates(doc, scope) ==
    LET as == SelectSeq(Anchors(doc, scope),
                  LAMBDA n : ~IsSkippedHref(Attr(doc[n].attrs, "href")))
    IN  [i \in 1..Len(as) |->
            [url  |-> url_join(BaseUrl, Attr(doc[as[i]].attrs, "href")),
             text |-> trim(element_text(doc, as[i]))]]

\* index of the first candidate with this url
FirstWithUrl(cands, url) ==
    CHOOSE i \in 1..Len(cands) :
        cands[i].url = url /\ \A j \in 1..(i - 1) : cands[j].url # url

\* C9: the links list has no two entries with the same absolute URL; of the
\* anchors that resolve to one URL only the first one's entry (URL and
\* text) is kept, and the entries are in first-seen order
C9_LinksDeduplicated ==
    Scraped =>
        LET ls  == response.links
            doc == RawDoc
        IN  /\ \A i, j \in 1..Len(ls) : i # j => ls[i].url # ls[j].url
            /\ \E scope \in {ContentSelectors[i] : i \in 1..Len(ContentSelectors)}
                               \cup {WholeDocument} :
                   LET cands == LinkCandidates(doc, scope)
                   IN  /\ {ls[i].url : i \in 1..Len(ls)}
                              = {cands[i].url : i \in 1..Len(cands)}
                       /\ \A i \in 1..Len(ls) :
                              ls[i] = cands[FirstWithUrl(cands, ls[i].url)]
                       /\ \A i, j \in 1..Len(ls) :
                              i < j => FirstWithUrl(cands, ls[i].url)
                                           < FirstWithUrl(cands, ls[j].url)

\* hrefs "a" and "/docs/a" resolve to one URL: only the first anchor is kept
C9_Witness ==
    /\ Scraped
    /\ html = Element("a", [href |-> "a"], <<Text("one")>>)
              \o Element("a", [href |-> "/docs/a"], <<Text("two")>>)
    /\ response.links = <<[url |-> "http://h.test/docs/a", text |-> "one"]>>

\* the (language, code) pairs of the matched elements that are long enough
CodeCandidates ==
    LET doc == RawDoc
        els == SelectSeq([n \in 1..Len(doc) |-> n],
                   LAMBDA n : /\ doc[n].kind = "elem"
                              /\ doc[n].tag \in {"pre", "code"}
                              /\ Len(trim(element_text(doc, n))) >= 10)
    IN  [i \in 1..Len(els) |->
            <<CodeLanguage(doc[els[i]].attrs), element_text(doc, els[i])>>]

FirstWithPair(cands, pair) ==
    CHOOSE i \in 1..Len(cands) :
        cands[i] = pair /\ \A j \in 1..(i - 1) : cands[j] # pair

\* C10: the code_blocks list has no two entries with the same (language,
\* code) pair, has an entry for every pair that occurs, and keeps the
\* entries in first-seen order
C10_CodeBlocksDeduplicated ==
    Scraped =>
        LET cbs   == response.code_blocks
            pair  == [i \in 1..Len(cbs) |-> <<cbs[i].language, cbs[i].code>>]
            cands == CodeCandidates
        IN  /\ \A i, j \in 1..Len(cbs) : i # j => pair[i] # pair[j]
            /\ {pair[i] : i \in 1..Len(cbs)} = {cands[i] : i \in 1..Len(cands)}
            /\ \A i, j \in 1..Len(cbs) :
                   i < j => FirstWithPair(cands, pair[i]) < FirstWithPair(cands, pair[j])

\* <pre><code class="... language-rust"> and <code class="lang-rust"> with the
\* same code: the pre entry (no language) and one rust entry remain
C10_Witness ==
    /\ Scraped
    /\ Len(CodeCandidates) = 3
    /\ Len(response.code_blocks) = 2
    /\ response.code_blocks[1].language = None
    /\ response.code_blocks[2].language = "rust"
    /\ response.code_blocks[1].code = response.code_blocks[2].code

\* the lang attribute of the page's <html> start tags (the first one that
\* has it), and the content attribute of the first content-language meta
HtmlLang ==
    LET with_lang == SelectSeq(html, LAMBDA t :
                         t.k = "open" /\ t.tag = "html" /\ "lang" \in DOMAIN t.attrs)
    IN  IF with_lang = <<>> THEN None ELSE with_lang[1].attrs.lang

MetaContentLanguage ==
    LET metas == SelectSeq(html, LAMBDA t :
                     /\ t.k = "open" /\ t.tag = "meta"
                     /\ Attr(t.attrs, "http-equiv") = "content-language")
    IN  IF metas = <<>> THEN None ELSE Attr(metas[1].attrs, "content")

C12_LanguageNonEmpty == Scraped => response.language # ""

\* the trimmed text of the first <title> and of the first <h1> of the page
TitleText ==
    LET doc == RawDoc
        m   == select(doc, SelTag("title"))
    IN  IF m = <<>> THEN "" ELSE trim(element_text(doc, m[1]))

H1Text ==
    LET doc == RawDoc
        m   == select(doc, SelTag("h1"))
    IN  IF m = <<>> THEN "" ELSE trim(element_text(doc, m[1]))

\* C13: the title of every returned record is non-empty: the trimmed text
\* of the first <title> if that is non-empty, otherwise the trimmed text of
\* the first <h1> if that is non-empty, otherwise "No Title"
C13_TitleDefaulted ==
    Scraped =>
        LET t == TitleText
            h == H1Text
        IN  /\ response.title # ""
            /\ response.title = IF t # "" THEN t ELSE IF h # "" THEN h ELSE "No Title"

\* a page with a blank <title> and a first <h1> that has text
C13_Witness ==
    /\ Scraped
    /\ \E i \in 1..Len(html) : html[i].k = "open" /\ html[i].tag = "title"
    /\ TitleText = "" /\ H1Text = "Head One"
    /\ response.title = "Head One"

\* C14: scrape_url returns an error, and no ScrapeResponse, whenever the
\* status of the HTTP response is not 2xx, as it does for an unparseable
\* URL, another scheme and a network failure
C14_ErrorOnNon2xx ==
    response # NoResponse =>
        /\ (url_scheme(fetch.url) \notin {"http", "https"} \/ ~fetch.sent)
               => IsErr(response)
        /\ (fetch.sent /\ fetch.status \notin 200..299) => IsErr(response)

\* the fields the display layer may set
DisplayFields == {"truncated", "actual_chars", "max_chars_limit", "warnings"}

IsPrefix(a, b) == Len(a) <= Len(b) /\ SubSeq(b, 1, Len(a)) = a

\* C15: the display layer of either service changes only truncated,
\* actual_chars and max_chars_limit of an assembled record and appends to
\* its warnings; every other field is left as extracted, and the record
\* comes from the assembler with empty warnings
C15_DisplayFrame ==
    /\ Scraped => response.warnings = <<>>
    /\ (Scraped /\ shown # NoShown) =>
          /\ DOMAIN shown.content = DOMAIN response
          /\ \A field \in (DOMAIN response) \ DisplayFields :
                 shown.content[field] = response[field]
          /\ IsPrefix(response.warnings, shown.content.warnings)

\* a record longer than max_chars: marked truncated, two warnings pushed,
\* all of its text kept
C15_Witness ==
    /\ Scraped /\ shown # NoShown
    /\ shown.content.truncated /\ shown.content.max_chars_limit = Some(100)
    /\ Len(shown.content.clean_content) > 100
    /\ Len(shown.content.warnings) = 2
    /\ shown.preview.notice = "truncated"

\* C17: for word counts wc(R) and wc(H) the selector chooses H exactly when
\* (wc(R) = 0 and wc(H) > 0) or wc(H) > wc(R) + 20, chooses R exactly when
\* wc(R) > 0 and wc(H) <= wc(R) + 20, and runs the fallback extractor
\* exactly when both are 0; wc(R) + 20 never overflows.  (wc(H) > wc(R) + 20
\* is written wc(H) - 20 > wc(R), which is the same over the integers.)
C17_SelectorArithmetic ==
    sel_choice # None =>
        LET rt == sel_args.rt
            ht == sel_args.ht
        IN  /\ sel_choice = "heuristic" <=> ((rt = 0 /\ ht > 0) \/ ht - 20 > rt)
            /\ sel_choice = "readability" <=> (rt > 0 /\ ht - 20 <= rt)
            /\ sel_choice = "fallback" <=> (rt = 0 /\ ht = 0)
            /\ saturating_add(rt, 20) >= rt /\ saturating_add(rt, 20) <= UsizeMax
            /\ rt <= UsizeMax - 20 => saturating_add(rt, 20) = rt + 20

\* wc(R) + 20 is beyond the largest usize and wc(H) is the largest usize:
\* R is chosen
C17_Witness ==
    /\ sel_choice = "readability"
    /\ sel_args.rt > UsizeMax - 20 /\ sel_args.ht = UsizeMax

\* the length term of the claim for word_count > 2000, 0.15 * (2000 /
\* word_count), in units of 1/ScoreScale and rounded down to the unit
LongLengthTerm(wc) ==
    CHOOSE l \in 0..1500 : l * wc <= 1500 * 2000 /\ (l + 1) * wc > 1500 * 2000

\* C18: the score is min(1.0, content + date + code + headings + length):
\* content 0.30 for more than 50 words, 0.15 for 21 to 50, else 0; date
\* 0.20 iff a published date is present; code 0.20 iff there is at least
\* one code block; headings 0.15 for more than 2 headings, 0.075 for 1 or
\* 2, else 0; length 0.15 for 500 to 2000 words, 0.15 * min(1, 2000/words)
\* above 2000, 0.15 * (words/500) for 101 to 500, else 0.  Nothing else
\* enters: not the date's value, not the code or the heading texts
C18_ScoreFormula ==
    score # NoScore =>
        LET wc       == score_args.wc
            n_code   == Len(score_args.code_blocks)
            n_head   == Len(score_args.headings)
            content  == CASE wc > 50 -> 3000 [] wc \in 21..50 -> 1500 [] OTHER -> 0
            date     == IF score_args.published_at = None THEN 0 ELSE 2000
            code     == IF n_code >= 1 THEN 2000 ELSE 0
            headings == CASE n_head > 2 -> 1500 [] n_head \in 1..2 -> 750 [] OTHER -> 0
            length   == CASE wc \in 500..2000 -> 1500
                          [] wc > 2000 -> Min(1500, LongLengthTerm(wc))
                          [] wc \in 101..499 -> (3 * wc)
                          [] OTHER -> 0
        IN  score = Min(ScoreScale, content + date + code + headings + length)

\* more than 2000 words, an empty date string, one block of unknown
\* language and two headings: 0.30 + 0.20 + 0.20 + 0.075 + 0.15 * 2000/2050
C18_Witness ==
    /\ score = 3000 + 2000 + 2000 + 750 + 1463
    /\ score_args.wc = 2050 /\ score_args.published_at = ""
    /\ Len(score_args.code_blocks) = 1 /\ score_args.code_blocks[1].language = None
    /\ Len(score_args.headings) = 2

\* the elements rule k of the structural extractor looks for (1: an
\* element with id content, a div if div_only; 2: main; 3: article) and
\* the cleaned text of the first of them, None when there is none
RuleMatches(doc, k, div_only) ==
    {n \in 1..Len(doc) :
        /\ doc[n].kind = "elem"
        /\ CASE k = 1 -> /\ Attr(doc[n].attrs, "id") = "content"
                         /\ div_only => doc[n].tag = "div"
             [] k = 2 -> doc[n].tag = "main"
             [] k = 3 -> doc[n].tag = "article"}

RuleText(doc, k, div_only) ==
    LET ms == RuleMatches(doc, k, div_only)
    IN  IF ms = {} THEN None
        ELSE StructuralText(doc, CHOOSE n \in ms : \A m \in ms : n <= m)

RuleAccepted(doc, k, div_only) ==
    RuleText(doc, k, div_only) # None /\ count_words(RuleText(doc, k, div_only)) > 50

\* C19: the structural extractor stops at the first rule that matches
\* anything: if an element with id content exists, main and article are
\* never examined, even when the #content text has 50 words or fewer (the
\* extractor then yields no candidate), and article is never examined when
\* a main element exists.  Stated for the pages whose elements with id
\* content are all div elements; it fails already there
C19_StopsAtFirstMatch ==
    (Scraped /\ RuleMatches(PreDoc, 1, FALSE) = RuleMatches(PreDoc, 1, TRUE)) =>
        LET doc == PreDoc
            k1  == CHOOSE k \in 1..4 :
                       /\ k = 4 \/ RuleMatches(doc, k, FALSE) # {}
                       /\ \A j \in 1..(k - 1) : RuleMatches(doc, j, FALSE) = {}
        IN  extract_mdbook_like(doc) =
                IF k1 < 4 /\ RuleAccepted(doc, k1, FALSE)
                THEN RuleText(doc, k1, FALSE) ELSE None

\* C19 as amended: the rules (a div with id content, main, article) are
\* tried in this order, each on its first match only, and the first rule
\* whose first match has more than 50 words of cleaned text gives the
\* candidate; a rule whose first match has 50 words or fewer passes on to
\* the next rule.  A candidate of more than 120 bytes ends the pipeline
C19_FirstAcceptedRule ==
    Scraped =>
        LET doc == PreDoc
            acc == {k \in 1..3 : RuleAccepted(doc, k, TRUE)}
            exp == IF acc = {} THEN None
                   ELSE RuleText(doc, CHOOSE k \in acc : \A j \in acc : k <= j, TRUE)
        IN  /\ extract_mdbook_like(doc) = exp
            /\ (exp # None /\ Len(exp) > 120)
                   => response.clean_content = post_clean_text(exp)

\* a div#content of two words before an article of 60 words: the article
\* is the result
C19_Witness ==
    /\ Scraped
    /\ LET doc == PreDoc
       IN  /\ RuleText(doc, 1, TRUE) = WordsShort
           /\ RuleMatches(doc, 2, TRUE) = {}
           /\ RuleText(doc, 3, TRUE) = WordsLong
    /\ response.clean_content = WordsLong

\* the lines of a text that the line filter is to keep: each line with its
\* whitespace runs folded and trimmed (pass 1), those of at least 3
\* characters that match no boilerplate pattern, in their order
RECURSIVE LinesToKeep(_)
LinesToKeep(lines) ==
    IF lines = <<>> THEN <<>>
    ELSE LET l == trim(ReplaceWhitespace(Head(lines)))
         IN  (IF Len(l) >= 3 /\ ~is_garbage(l) THEN <<l>> ELSE <<>>)
             \o LinesToKeep(Tail(lines))

\* C20: the line filter keeps, in their order, every line of its input
\* that after trimming has at least 3 characters and matches no boilerplate
\* pattern, and drops only lines that are too short, match a pattern or
\* repeat the kept line before them; a line that matches no pattern is
\* kept even when another line of the same input matches one
C20_LineFilter ==
    text_runs = 1 =>
        text_out = join(dedup(LinesToKeep(split_lines(text_in))), "\n")

\* the records of the tasks joined so far that ended with Ok, in spawn order
RECURSIVE JoinedRecords(_, _)
JoinedRecords(ts, i) ==
    IF i > Len(ts) THEN <<>>
    ELSE (IF ts[i].pc = "joined" /\ ~IsErr(ts[i].result) THEN <<ts[i].result>> ELSE <<>>)
         \o JoinedRecords(ts, i + 1)

HasBlankLineBetweenBlocks(s) ==
    \E i \in 1..Len(s), j \in 1..Len(s) :
        /\ i < j /\ Ch(s, i) = "\n" /\ Ch(s, j) = "\n"
        /\ \A k \in i..j : IsWhitespace(Ch(s, k))
        /\ \E k \in 1..(i - 1) : ~IsWhitespace(Ch(s, k))
        /\ \E k \in (j + 1)..Len(s) : ~IsWhitespace(Ch(s, k))

\* C21 as stated: two blocks that a blank line separates in the input of
\* clean_text are separated by exactly one blank line in its output
C21_BlankLinePreserved ==
    (text_runs = 1 /\ HasBlankLineBetweenBlocks(text_in))
        => (Contains(text_clean, "\n\n") /\ ~Contains(text_clean, "\n\n\n"))

\* C21 amended: clean_text replaces every run of whitespace, newlines and
\* blank lines included, by one space and trims the ends: its output is the
\* input's whitespace-separated words joined by single spaces, and holds no
\* newline
C21_WhitespaceCollapsed ==
    text_runs = 1 =>
        /\ text_clean = join(split_whitespace(text_in), " ")
        /\ ~Contains(text_clean, "\n")

\* an input with a blank line between two blocks, which come out on one line
C21_Witness ==
    /\ text_runs = 1
    /\ HasBlankLineBetweenBlocks(text_in)
    /\ Contains(text_clean, " ") /\ ~Contains(text_clean, "\n")

\* the 27 keywords and the four separated ad markers of the claim
ClaimedKeywords ==
    <<"ads", "advert", "adsense", "adunit", "ad-slot", "ad_container",
      "adbox", "sponsor", "promo", "cookie", "consent", "banner", "modal",
      "subscribe", "newsletter", "share", "social", "sidebar", "comments",
      "related", "breadcrumb", "pagination", "nav", "footer", "header",
      "hero", "toolbar", "-ad", "ad-", "_ad", "ad_">>

\* k occurs in s at some position
OccursIn(k, s) ==
    \E i \in 1..(Len(s) - Len(k) + 1) : SubSeq(s, i, i + Len(k) - 1) = k

ExtractDoc == parse_document(pre_out[1])

\* the elements the claims call boilerplate: a skipped tag, a noise id or a
\* noise class token
IsBoilerplate(node) ==
    \/ node.tag \in {"script", "style", "noscript", "svg", "canvas", "iframe",
                     "form", "header", "footer", "nav", "aside"}
    \/ "id" \in DOMAIN node.attrs /\ is_noise_identifier(node.attrs["id"])
    \/ /\ "class" \in DOMAIN node.attrs
       /\ LET c == split_whitespace(node.attrs["class"])
          IN  \E i \in 1..Len(c) : is_noise_identifier(c[i])

\* the text nodes under root with no boilerplate element between root and
\* them (root itself not counted)
WalkKept(doc, root) ==
    {n \in 1..Len(doc) :
        /\ doc[n].kind = "text" /\ IsUnder(doc, n, root)
        /\ \A e \in Elements(doc) :
               (IsUnder(doc, e, root) /\ IsUnder(doc, n, e)) => ~IsBoilerplate(doc[e])}

\* C23: the walk started at any element collects, in document order and
\* once each, exactly the text nodes under it that lie in no boilerplate
\* descendant of it
C23_WalkCollectsKeptText ==
    heuristic_out # <<>> =>
        \A root \in Elements(ExtractDoc) :
            extract_text_recursive(ExtractDoc, root)
                = TextsOf(ExtractDoc, InDocOrder(ExtractDoc, WalkKept(ExtractDoc, root)))

\* a walked element with text kept before and after a skipped subtree, and
\* one where the skipped element lies two levels down
C23_Witness ==
    /\ heuristic_out # <<>>
    /\ \E root \in Elements(ExtractDoc) :
           extract_text_recursive(ExtractDoc, root) = <<"story one two", "story end">>
    /\ \E root \in Elements(ExtractDoc) :
           /\ ExtractDoc[root].tag = "div"
           /\ extract_text_recursive(ExtractDoc, root) = <<"body text">>

\* the matches of the heuristic extractor: selector number and element
HeuristicPairs(doc) ==
    {<<i, e>> \in (1..Len(HeuristicSelectors)) \X Elements(doc) :
        Matches(doc[e], HeuristicSelectors[i])}

\* the normalized text of a matched element, and its word count
MatchText(doc, e) == post_clean_text(join(extract_text_recursive(doc, e), " "))
MatchWords(doc, e) == count_words(MatchText(doc, e))

\* <<i, e>> comes before <<j, f>> in (selector priority, document order)
MetBefore(p, q) == p[1] < q[1] \/ (p[1] = q[1] /\ p[2] < q[2])

\* C24: the heuristic extractor's text has at least the word count of every
\* match of every selector; it is the text of the match met first among
\* those with the highest count; it is empty exactly when no match has a
\* word
C24_BestOfAllMatches ==
    heuristic_out # <<>> =>
        LET doc   == ExtractDoc
            pairs == HeuristicPairs(doc)
            text  == heuristic_out[1]
        IN  /\ \A p \in pairs : count_words(text) >= MatchWords(doc, p[2])
            /\ (text = "") <=> (\A p \in pairs : MatchWords(doc, p[2]) = 0)
            /\ text # "" =>
                   \E p \in pairs :
                       /\ text = MatchText(doc, p[2])
                       /\ \A q \in pairs :
                              \/ MatchWords(doc, q[2]) < MatchWords(doc, p[2])
                              \/ q = p
                              \/ MetBefore(p, q)

\* two matches of three words each: the later element in the document wins
\* because its selector (.content) comes before the other's (.article)
C24_Witness ==
    /\ heuristic_out = <<"plain div text">>
    /\ \E p \in HeuristicPairs(ExtractDoc), q \in HeuristicPairs(ExtractDoc) :
           /\ p[1] < q[1] /\ q[2] < p[2]
           /\ MatchText(ExtractDoc, p[2]) = "plain div text"
           /\ MatchText(ExtractDoc, q[2]) = "other div words"

\* the nine scopes of the claim, in their priority order
ClaimedScopes ==
    << SelTag("article"), SelTag("main"), SelAttr("role", "main"),
       SelAttr("itemprop", "articleBody"), SelClass("entry-content"),
       SelClass("post-content"), SelClass("article-content"),
       SelId("content"), SelId("main") >>

\* the first scope of a set of scope numbers, or the whole document
FirstScope(S) ==
    IF S = {} THEN WholeDocument
    ELSE ClaimedScopes[CHOOSE i \in S : \A j \in S : i <= j]

\* the links of a scope: its candidates without those whose URL an earlier
\* candidate has
ScopeLinks(doc, scope) ==
    LET cands == LinkCandidates(doc, scope)
        first == {i \in 1..Len(cands) : \A j \in 1..(i - 1) : cands[j].url # cands[i].url}
        ixs   == SortedFrom(first, 1, Len(cands))
    IN  [i \in 1..Len(ixs) |-> cands[ixs[i]]]

\* C25 as stated: the links are those of the first scope that matches at
\* least three anchors with href, else those of the whole document
C25_FirstScopeWithThreeAnchors ==
    Scraped =>
        response.links
            = ScopeLinks(RawDoc,
                  FirstScope({i \in 1..Len(ClaimedScopes) :
                                 Len(Anchors(RawDoc, ClaimedScopes[i])) >= 3}))

\* C25 amended: the links are those of the first scope that yields at least
\* three links, counted after the skipped hrefs (#.., javascript:, mailto:)
\* and the repeated URLs are left out; else those of the whole document
C25_FirstScopeWithThreeLinks ==
    Scraped =>
        response.links
            = ScopeLinks(RawDoc,
                  FirstScope({i \in 1..Len(ClaimedScopes) :
                                 Len(ScopeLinks(RawDoc, ClaimedScopes[i])) >= 3}))

\* an article with three anchors and two links is passed over: the links
\* come from a later scope, or from the whole document with a link that is
\* outside the article
C25_Witness ==
    /\ Scraped
    /\ Len(Anchors(RawDoc, SelTag("article"))) >= 3
    /\ Len(ScopeLinks(RawDoc, SelTag("article"))) = 2
    /\ response.links # ScopeLinks(RawDoc, SelTag("article"))
    /\ Len(response.links) >= 3

\* the end tag that matches the start tag at i of a well-nested page
MatchingClose(toks, i) ==
    LET Balance(j) ==
            Cardinality({m \in i..j : toks[m].k = "open"})
                - Cardinality({m \in i..j : toks[m].k = "close"})
        ends == {j \in (i + 1)..Len(toks) : Balance(j) = 0}
    IN  CHOOSE j \in ends : \A m \in ends : j <= m

\* a div, section, aside or article whose own id or class value contains a
\* boilerplate keyword
IsOwnAdBlock(tok) ==
    /\ tok.k = "open" /\ tok.tag \in {"div", "section", "aside", "article"}
    /\ \E a \in {"id", "class"} \cap DOMAIN tok.attrs :
           \E kw \in AdKeywords : OccursIn(kw, to_ascii_lowercase(tok.attrs[a]))

\* the page with every such block replaced, from its start tag to the
\* matching end tag, and everything else left as it is
RECURSIVE WithoutOwnAdBlocks(_, _)
WithoutOwnAdBlocks(toks, i) ==
    IF i > Len(toks) THEN <<>>
    ELSE IF IsOwnAdBlock(toks[i])
         THEN <<Text(" ")>> \o WithoutOwnAdBlocks(toks, MatchingClose(toks, i) + 1)
         ELSE <<toks[i]>> \o WithoutOwnAdBlocks(toks, i + 1)

\* C26: the second pass of the preprocessor removes exactly the div,
\* section, aside and article blocks whose own id or class value contains a
\* keyword, each from its start tag to the matching end tag, and leaves
\* every other block unchanged
C26_RemovesOwnAdBlocks ==
    pre_out # <<>> =>
        pre_out[1] = WithoutOwnAdBlocks(ReplaceBlocks(html, 1, 1), 1)

\* C27: when the readability extractor fails and the structural extractor
\* has not ended the pipeline, scrape_url still returns a record; its
\* clean_text is what the selector rules give for a readability word count
\* of 0: the heuristic candidate if it has a word, else the fallback
\* extractor's output, and the last-resort conversion when the normalized
\* choice has fewer than 80 bytes
C27_ReadabilityFailureDegrades ==
    (response # NoResponse /\ readability = 0 /\ ~ShortCircuit) =>
        /\ ~IsErr(response)
        /\ LET H      == HeuristicCandidate
               chosen == IF count_words(H) > 0 THEN H ELSE FallbackOutput
               final  == post_clean_text(chosen)
           IN  response.clean_content
                   = IF Len(final) >= 80 THEN final ELSE last_resort_text(Pre)

\* readability failed and the heuristic candidate became the final text,
\* where the fallback extractor would have given another one
C27_Witness ==
    /\ Scraped /\ readability = 0 /\ ~ShortCircuit
    /\ count_words(HeuristicCandidate) > 0
    /\ response.clean_content = HeuristicCandidate
    /\ FallbackOutput # HeuristicCandidate

\* the text nodes that belong to no boilerplate element: no element they
\* are in, at any depth, has a skipped tag or a noise id or class
CleanTextNodes(doc) ==
    {n \in 1..Len(doc) :
        /\ doc[n].kind = "text"
        /\ \A e \in Elements(doc) : IsUnder(doc, n, e) => ~IsBoilerplate(doc[e])}

WordsOf(text) == {split_whitespace(text)[i] : i \in 1..Len(split_whitespace(text))}

\* C28: every word of the heuristic candidate comes from a text node that
\* belongs to no boilerplate element, also when the matched element is
\* boilerplate itself or lies inside boilerplate
C28_NoBoilerplateText ==
    heuristic_out # <<>> =>
        \A w \in WordsOf(heuristic_out[1]) :
            \E n \in CleanTextNodes(ExtractDoc) : w \in WordsOf(ExtractDoc[n].text)

\* the text output of the tool for a scraped page
TextShown == "content" \in DOMAIN shown /\ shown.format = "text"

\* the rendered preview leaves out at least one character of clean_content
PreviewOmits ==
    /\ shown.content.clean_content # ""
    /\ Len(shown.preview.text) < Len(shown.content.clean_content)

\* C29 as stated: the truncated flag and the content_truncated warning are
\* set exactly when the preview omits a character of clean_content, whatever
\* the characters are.  (Stated without the truncation notice; it fails
\* already there.)
C29_TruncatedIffOmitted ==
    TextShown =>
        /\ shown.content.truncated <=> PreviewOmits
        /\ (\E i \in 1..Len(shown.content.warnings) :
                shown.content.warnings[i] = "content_truncated") <=> PreviewOmits

\* the outcomes the claim calls permanent and those it says are retried
IsPermanentOutcome(o) ==
    o.kind = "response" /\ ~(o.status \in 200..299) /\ ~(o.status \in 500..599)

IsRetriedOutcome(o) ==
    \/ o.kind = "transport"
    \/ o.kind = "response" /\ o.status \in 500..599
    \/ o.kind = "unparseable"

SearchReturned == search.pc = "done"

\* the results without those whose url an earlier result has
FirstByUrl(results) ==
    LET first == {i \in 1..Len(results) :
                     \A j \in 1..(i - 1) : results[j].url # results[i].url}
        ixs   == SortedFrom(first, 1, Len(results))
    IN  [i \in 1..Len(ixs) |-> results[ixs[i]]]

\* C30: a non-success status that is not 5xx ends the call with an error
\* and is the last request sent; transport errors, 5xx statuses and
\* unparseable bodies are followed by another request as long as the
\* backoff's time is not used up; a call that returns an error leaves the
\* cache and the history as they were; a call that returns results it
\* fetched has put them, de-duplicated, under its cache key
C30_SearchRetryAndCache ==
    search.pc # "idle" =>
        LET n    == Len(search.attempts)
            last == search.attempts[n]
        IN  /\ \A i \in 1..(n - 1) : IsRetriedOutcome(search.attempts[i])
            /\ (n > 0 /\ IsPermanentOutcome(last))
                   => SearchReturned /\ IsErr(search.result)
            /\ (n > 0 /\ IsRetriedOutcome(last) /\ SearchReturned)
                   => IsErr(search.result) /\ search.elapsed > MaxElapsedTime
            /\ (SearchReturned /\ IsErr(search.result))
                   => /\ search_cache = search.cache0
                      /\ search_history = search.history0
            /\ (SearchReturned /\ ~IsErr(search.result) /\ n > 0)
                   => /\ search.result.results = FirstByUrl(last.results)
                      /\ cache_key(search.query) \in DOMAIN search_cache
                      /\ search_cache[cache_key(search.query)] = search.result.results

\* a second call, with the first call's results in the cache: a transport
\* error and a 503 were retried, then a 404 ended the call with an error and
\* the cache and the history are as before
C30_Witness ==
    /\ SearchReturned /\ search.calls = 2
    /\ Len(search.attempts) = 3
    /\ search.attempts[1].kind = "transport"
    /\ search.attempts[2].status = 503
    /\ search.attempts[3].status = 404
    /\ IsErr(search.result)
    /\ search_history # <<>> /\ search_cache = search.cache0
    /\ \E k \in DOMAIN search_cache : Len(search_cache[k]) = 2

====
